---- MODULE Spec2Model ----
(***************************************************************************)
(* Model of the SQL-backed artifact registry of cruciblehq/protocol         *)
(* (pkg/registry): the four metadata tables with their primary and foreign  *)
(* keys, the blob store under the archive root, the upload lock, and the    *)
(* facade operations of SQLRegistry executed by concurrent callers, one     *)
(* database statement or filesystem phase per step.                         *)
(* Further, the tar codec of pkg/archive (Create, Extract) over a           *)
(* filesystem, and the identifier parser of pkg/reference.                  *)
(*                                                                         *)
(* Strings that the code inspects character by character (names, version   *)
(* strings) are sequences of one-character strings.  Archive contents are    *)
(* sequences of bytes.  SHA-256 is an injective, uninterpreted function.     *)
(***************************************************************************)
EXTENDS Integers, Sequences, FiniteSets, TLC

VARIABLES
    namespaces,   \* table namespaces: name -> row
    resources,    \* table resources: <<namespace, name>> -> row
    versions,     \* table versions: <<namespace, resource, string>> -> row
    channels,     \* table channels: <<namespace, resource, name>> -> row
    files,        \* files under archiveRoot: path -> content
    mu,           \* SQLRegistry.mu: the caller holding the lock, or NoProc
    clock,        \* time.Now().Unix()
    pc,           \* per caller: position inside its current facade call
    call,         \* per caller: operation and arguments of its current/last call
    ret,          \* per caller: error code returned by its last call
    cancelled,    \* per caller: the context of the current call is cancelled
    staged,       \* per caller: (digest, path, size) returned by storeArchiveFile
    result,       \* per caller: the value returned by its last call, or NoResult
    tree,         \* package archive: the filesystem, absolute path -> node
    reader,       \* package archive: the entries left in the tar reader
    codec,        \* package archive: position and error of Create / Extract,
                  \* entries extracted and the header read last
    ident,        \* package reference: the string to parse, the context type,
                  \* the options and the identifiers parsed from it
    logger        \* SQLRegistry.logger: the failing call site, and for each of
                  \* two runs the raw error, the Error returned and the log

vars == <<namespaces, resources, versions, channels, files, mu, clock,
          pc, call, ret, cancelled, staged, result, tree, reader, codec, ident,
          logger>>

registry == <<namespaces, resources, versions, channels, files, mu, clock,
              pc, call, ret, cancelled, staged, result>>

archive == <<tree, reader, codec>>

\* The variables of the packages archive and reference, and the logger.
packages == <<archive, ident, logger>>

db == <<namespaces, resources, versions, channels>>

-----------------------------------------------------------------------------
(* Bounds *)

MaxClock == 1

Procs == {"p1", "p2"}
NoProc == "nobody"

-----------------------------------------------------------------------------
(* Values *)

NULL == <<>>

LowerAlpha == {"a", "b", "c", "d", "e", "f", "g", "h", "i", "j", "k", "l", "m",
               "n", "o", "p", "q", "r", "s", "t", "u", "v", "w", "x", "y", "z"}
Digits == {"0", "1", "2", "3", "4", "5", "6", "7", "8", "9"}

NsA == <<"n", "s">>
ResA == <<"r">>
BadName == <<"N">>
Ver1 == <<"1", ".", "0", ".", "0">>
Ver2 == <<"2", ".", "0", ".", "0">>
BadVer == <<"1", ".", "0">>
Stable == <<"s">>
Beta == <<"b">>

Descriptions == {"d1", "d2"}
Contents == {<<7>>, <<8, 9>>}

NoArgs == [op |-> "none", ns |-> <<>>, res |-> <<>>, ver |-> <<>>, ch |-> <<>>,
           name |-> <<>>, tgt |-> <<>>, desc |-> "", data |-> <<>>]

NoStaged == [digest |-> <<>>, path |-> <<>>, size |-> 0]

NoResult == <<>>

Put(f, k, v) == [x \in DOMAIN f \cup {k} |-> IF x = k THEN v ELSE f[x]]
Del(f, k) == [x \in DOMAIN f \ {k} |-> f[x]]

-----------------------------------------------------------------------------
(* Validators *)

NameChar(c) == c \in LowerAlpha \cup Digits \cup {"-"}
AlphaNum(c) == c \in LowerAlpha \cup Digits

\* namePattern: ^[a-z0-9]([a-z0-9-]{0,61}[a-z0-9])?$
namePattern(s) ==
    /\ Len(s) >= 1
    /\ Len(s) <= 63
    /\ AlphaNum(s[1])
    /\ AlphaNum(s[Len(s)])
    /\ \A i \in 1..Len(s) : NameChar(s[i])

validateName(name) ==
    IF name = <<>> THEN FALSE
    ELSE IF Len(name) > 63 THEN FALSE
    ELSE namePattern(name)

\* Positions of the character c in s.
Positions(s, c) == {i \in 1..Len(s) : s[i] = c}

Slice(s, a, b) == [i \in 1..(b - a + 1) |-> s[a + i - 1]]

\* A numeric identifier: digits, no leading zero unless it is "0".
NumericId(s) ==
    /\ Len(s) >= 1
    /\ \A i \in 1..Len(s) : s[i] \in Digits
    /\ (Len(s) > 1 => s[1] # "0")

\* MAJOR.MINOR.PATCH of SemVer 2.0 (no prerelease or build part: none of the
\* version strings of this model carries one).
ParseVersion(s) ==
    LET dots == Positions(s, ".")
    IN  /\ Cardinality(dots) = 2
        /\ \A i \in 1..Len(s) : s[i] \in Digits \cup {"."}
        /\ LET d1 == CHOOSE d \in dots : \A e \in dots : d <= e
               d2 == CHOOSE d \in dots : \A e \in dots : d >= e
           IN  /\ d1 > 1 /\ d2 > d1 + 1 /\ d2 < Len(s)
               /\ NumericId(Slice(s, 1, d1 - 1))
               /\ NumericId(Slice(s, d1 + 1, d2 - 1))
               /\ NumericId(Slice(s, d2 + 1, Len(s)))

validateVersionString(version) == ParseVersion(version)

validateNamespace(namespace) == validateName(namespace)

validateIdentifier(namespace, resource) ==
    IF ~validateName(namespace) THEN FALSE ELSE validateName(resource)

validateReference(namespace, resource, version) ==
    IF ~validateName(namespace) THEN FALSE
    ELSE IF ~validateName(resource) THEN FALSE
    ELSE validateVersionString(version)

validateChannelReference(namespace, resource, channel) ==
    IF ~validateName(namespace) THEN FALSE
    ELSE IF ~validateName(resource) THEN FALSE
    ELSE validateName(channel)

\* Validates info.Name and info.Version; the channel argument of
\* UpdateChannel is not an input of this validator.
validateChannelInfo(namespace, resource, infoName, infoVersion) ==
    IF ~validateName(namespace) THEN FALSE
    ELSE IF ~validateName(resource) THEN FALSE
    ELSE IF ~validateName(infoName) THEN FALSE
    ELSE validateVersionString(infoVersion)

-----------------------------------------------------------------------------
(* Blob store paths (storage.go) *)

ArchiveRoot == "root"
\* File names are sequences of string pieces.
TemporaryUploadSuffix == <<".upload.tmp">>
ArchiveFileExtension == ".tar.zst"

\* hex.EncodeToString(sha256(data)): injective and uninterpreted.
Sha256Hex(data) == <<"hex", data>>

\* fmt.Sprintf("sha256:%s", ...)
DigestOf(data) == <<"sha256", Sha256Hex(data)>>

archiveDirectoryPath(namespace, resource, version) ==
    <<ArchiveRoot, namespace, resource, version>>

archiveTempPath(namespace, resource, version) ==
    Append(archiveDirectoryPath(namespace, resource, version), TemporaryUploadSuffix)

archiveFinalPath(namespace, resource, version, digest) ==
    Append(archiveDirectoryPath(namespace, resource, version),
           <<digest, ArchiveFileExtension>>)

-----------------------------------------------------------------------------
(* Database statements.  Each is atomic.  cx: the context is cancelled, the  *)
(* statement is not executed and the context error is returned.  A result   *)
(* is [err, tbl]: err is "nil", "ctx", "constraint" (primary or foreign key *)
(* violation) or "norows" (sql.ErrNoRows); tbl is the table afterwards.      *)

Res(e, t) == [err |-> e, tbl |-> t]

HasResources(namespace) == \E k \in DOMAIN resources : k[1] = namespace
HasVersions(namespace, resource) ==
    \E k \in DOMAIN versions : k[1] = namespace /\ k[2] = resource
HasChannels(namespace, resource) ==
    \E k \in DOMAIN channels : k[1] = namespace /\ k[2] = resource
IsTargeted(namespace, resource, version) ==
    \E k \in DOMAIN channels :
        k[1] = namespace /\ k[2] = resource /\ channels[k].version = version

\* Variant: INSERT OR REPLACE, a row of the same name is overwritten silently.
insertNamespace_replace(cx, name, description) ==
    IF cx THEN Res("ctx", namespaces)
    ELSE Res("nil", Put(namespaces, name,
             [description |-> description, created_at |-> clock, updated_at |-> clock]))

insertNamespace(cx, name, description) ==
    IF cx THEN Res("ctx", namespaces)
    ELSE IF name \in DOMAIN namespaces THEN Res("constraint", namespaces)
    ELSE Res("nil", Put(namespaces, name,
             [description |-> description, created_at |-> clock, updated_at |-> clock]))

getNamespace(cx, name) ==
    IF cx THEN "ctx"
    ELSE IF name \notin DOMAIN namespaces THEN "norows"
    ELSE "nil"

\* Variant: the DELETE is not restricted by the resources that reference the row.
deleteNamespace_unrestricted(cx, namespace) ==
    IF cx THEN Res("ctx", namespaces)
    ELSE Res("nil", Del(namespaces, namespace))

deleteNamespace(cx, namespace) ==
    IF cx THEN Res("ctx", namespaces)
    ELSE IF namespace \notin DOMAIN namespaces THEN Res("nil", namespaces)
    ELSE IF HasResources(namespace) THEN Res("constraint", namespaces)
    ELSE Res("nil", Del(namespaces, namespace))

\* Variant: the INSERT does not check that the namespace exists.
insertResource_withoutParent(cx, namespace, name, type, description) ==
    IF cx THEN Res("ctx", resources)
    ELSE IF <<namespace, name>> \in DOMAIN resources THEN Res("constraint", resources)
    ELSE Res("nil", Put(resources, <<namespace, name>>,
             [type |-> type, description |-> description,
              created_at |-> clock, updated_at |-> clock]))

insertResource(cx, namespace, name, type, description) ==
    IF cx THEN Res("ctx", resources)
    ELSE IF <<namespace, name>> \in DOMAIN resources THEN Res("constraint", resources)
    ELSE IF namespace \notin DOMAIN namespaces THEN Res("constraint", resources)
    ELSE Res("nil", Put(resources, <<namespace, name>>,
             [type |-> type, description |-> description,
              created_at |-> clock, updated_at |-> clock]))

getResource(cx, namespace, resource) ==
    IF cx THEN "ctx"
    ELSE IF <<namespace, resource>> \notin DOMAIN resources THEN "norows"
    ELSE "nil"

deleteResource(cx, namespace, resource) ==
    IF cx THEN Res("ctx", resources)
    ELSE IF <<namespace, resource>> \notin DOMAIN resources THEN Res("nil", resources)
    ELSE IF HasVersions(namespace, resource) \/ HasChannels(namespace, resource)
         THEN Res("constraint", resources)
    ELSE Res("nil", Del(resources, <<namespace, resource>>))

insertVersion(cx, namespace, resource, string) ==
    IF cx THEN Res("ctx", versions)
    ELSE IF <<namespace, resource, string>> \in DOMAIN versions
         THEN Res("constraint", versions)
    ELSE IF <<namespace, resource>> \notin DOMAIN resources
         THEN Res("constraint", versions)
    ELSE Res("nil", Put(versions, <<namespace, resource, string>>,
             [digest |-> NULL, size |-> NULL, path |-> NULL,
              created_at |-> clock, updated_at |-> clock]))

getVersion(cx, namespace, resource, version) ==
    IF cx THEN "ctx"
    ELSE IF <<namespace, resource, version>> \notin DOMAIN versions THEN "norows"
    ELSE "nil"

\* The Version getVersion builds from the row it scanned.
scanVersion(namespace, resource, version) ==
    LET row == versions[<<namespace, resource, version>>]
    IN  [namespace |-> namespace, resource |-> resource, string |-> version,
         digest |-> row.digest, size |-> row.size, archive |-> row.path,
         created_at |-> row.created_at, updated_at |-> row.updated_at]

\* The UPDATE of updateVersion and its RowsAffected test; the statement takes
\* the time and the key, so the time of modification is all it sets.
updateVersion(cx, namespace, resource, version) ==
    IF cx THEN Res("ctx", versions)
    ELSE IF <<namespace, resource, version>> \notin DOMAIN versions
         THEN Res("norows", versions)
    ELSE Res("nil", [versions EXCEPT ![<<namespace, resource, version>>].updated_at = clock])

\* Variant: the DELETE is not restricted by the channels that target the row.
deleteVersion_unrestricted(cx, namespace, resource, version) ==
    IF cx THEN Res("ctx", versions)
    ELSE Res("nil", Del(versions, <<namespace, resource, version>>))

\* Variant: the DELETE is also refused for a version that holds an archive.
deleteVersion_refusesArchived(cx, namespace, resource, version) ==
    IF cx THEN Res("ctx", versions)
    ELSE IF <<namespace, resource, version>> \notin DOMAIN versions
         THEN Res("nil", versions)
    ELSE IF IsTargeted(namespace, resource, version) THEN Res("constraint", versions)
    ELSE IF versions[<<namespace, resource, version>>].path # NULL
         THEN Res("constraint", versions)
    ELSE Res("nil", Del(versions, <<namespace, resource, version>>))

deleteVersion(cx, namespace, resource, version) ==
    IF cx THEN Res("ctx", versions)
    ELSE IF <<namespace, resource, version>> \notin DOMAIN versions
         THEN Res("nil", versions)
    ELSE IF IsTargeted(namespace, resource, version) THEN Res("constraint", versions)
    ELSE Res("nil", Del(versions, <<namespace, resource, version>>))

\* Variant: the UPDATE sets the digest and the size and omits the path.
uploadArchive_withoutPath(cx, namespace, resource, version, digest, path, size) ==
    IF cx THEN Res("ctx", versions)
    ELSE IF <<namespace, resource, version>> \notin DOMAIN versions
         THEN Res("norows", versions)
    ELSE Res("nil", [versions EXCEPT ![<<namespace, resource, version>>] =
             [@ EXCEPT !.digest = <<digest>>, !.size = <<size>>,
                       !.updated_at = clock]])

\* Variant: the UPDATE runs although the context is cancelled.
uploadArchive_ignoresContext(cx, namespace, resource, version, digest, path, size) ==
    IF <<namespace, resource, version>> \notin DOMAIN versions
    THEN Res("norows", versions)
    ELSE Res("nil", [versions EXCEPT ![<<namespace, resource, version>>] =
             [@ EXCEPT !.digest = <<digest>>, !.size = <<size>>, !.path = <<path>>,
                       !.updated_at = clock]])

\* sql/versions upload statement, then the RowsAffected test of uploadArchive.
uploadArchive(cx, namespace, resource, version, digest, path, size) ==
    IF cx THEN Res("ctx", versions)
    ELSE IF <<namespace, resource, version>> \notin DOMAIN versions
         THEN Res("norows", versions)
    ELSE Res("nil", [versions EXCEPT ![<<namespace, resource, version>>] =
             [@ EXCEPT !.digest = <<digest>>, !.size = <<size>>, !.path = <<path>>,
                       !.updated_at = clock]])

insertChannel(cx, namespace, resource, name, description, version) ==
    IF cx THEN Res("ctx", channels)
    ELSE IF <<namespace, resource, name>> \in DOMAIN channels
         THEN Res("constraint", channels)
    ELSE IF <<namespace, resource>> \notin DOMAIN resources
         THEN Res("constraint", channels)
    ELSE IF <<namespace, resource, version>> \notin DOMAIN versions
         THEN Res("constraint", channels)
    ELSE Res("nil", Put(channels, <<namespace, resource, name>>,
             [description |-> description, version |-> version,
              created_at |-> clock, updated_at |-> clock]))

\* The UPDATE statement of updateChannel and its RowsAffected test.  The row
\* is addressed by info.Name (infoName).
updateChannelStmt(cx, namespace, resource, infoName, description, version) ==
    IF cx THEN Res("ctx", channels)
    ELSE IF <<namespace, resource, infoName>> \notin DOMAIN channels
         THEN Res("norows", channels)
    ELSE IF <<namespace, resource, version>> \notin DOMAIN versions
         THEN Res("constraint", channels)
    ELSE Res("nil", [channels EXCEPT ![<<namespace, resource, infoName>>] =
             [@ EXCEPT !.description = description, !.version = version,
                       !.updated_at = clock]])

\* Inner join of the channel with its target version.
getChannel(cx, namespace, resource, channel) ==
    IF cx THEN "ctx"
    ELSE IF <<namespace, resource, channel>> \notin DOMAIN channels THEN "norows"
    ELSE IF <<namespace, resource, channels[<<namespace, resource, channel>>].version>>
              \notin DOMAIN versions THEN "norows"
    ELSE "nil"

\* The Channel getChannel builds from the joined row it scanned: of the
\* archive columns digest, size and path only the digest is copied into the
\* embedded Version.
scanChannel(namespace, resource, channel) ==
    LET row == channels[<<namespace, resource, channel>>]
        v == versions[<<namespace, resource, row.version>>]
    IN  [namespace |-> namespace, resource |-> resource, name |-> channel,
         description |-> row.description,
         created_at |-> row.created_at, updated_at |-> row.updated_at,
         version |-> [namespace |-> namespace, resource |-> resource,
                      string |-> row.version,
                      digest |-> v.digest, size |-> NULL, archive |-> NULL,
                      created_at |-> v.created_at, updated_at |-> v.updated_at]]

\* Variant: a DELETE that affects no row reports sql.ErrNoRows, as the UPDATE
\* statements do.
deleteChannel_rowsAffected(cx, namespace, resource, channel) ==
    IF cx THEN Res("ctx", channels)
    ELSE IF <<namespace, resource, channel>> \notin DOMAIN channels
         THEN Res("norows", channels)
    ELSE Res("nil", Del(channels, <<namespace, resource, channel>>))

deleteChannel(cx, namespace, resource, channel) ==
    IF cx THEN Res("ctx", channels)
    ELSE Res("nil", Del(channels, <<namespace, resource, channel>>))

-----------------------------------------------------------------------------
(* Callers.  A caller is idle or inside one facade call.  While the call    *)
(* runs, call[p] holds its arguments; after it returned, call[p] keeps the  *)
(* operation name only and ret[p] the returned error code ("ok": nil).      *)

\* The context of caller p at its next statement: cancelled already, or
\* cancelled just before the statement.
Ctx(p) == {cancelled[p], TRUE}

OpOnly(op) == [NoArgs EXCEPT !.op = op]

\* A return with error code `code` ("ok": nil) and value v.
Respond(p, op, code, c, v) ==
    /\ pc' = [pc EXCEPT ![p] = "idle"]
    /\ ret' = [ret EXCEPT ![p] = code]
    /\ cancelled' = [cancelled EXCEPT ![p] = c]
    /\ call' = [call EXCEPT ![p] = OpOnly(op)]
    /\ result' = [result EXCEPT ![p] = v]
    /\ UNCHANGED packages

Return(p, op, code, c) == Respond(p, op, code, c, NoResult)

Goto(p, l, a, c) ==
    /\ pc' = [pc EXCEPT ![p] = l]
    /\ ret' = [ret EXCEPT ![p] = "pending"]
    /\ cancelled' = [cancelled EXCEPT ![p] = c]
    /\ call' = [call EXCEPT ![p] = a]
    /\ result' = [result EXCEPT ![p] = NoResult]
    /\ UNCHANGED packages

\* No header was read.
NoHeader == [name |-> <<>>, type |-> "none", data |-> <<>>, short |-> FALSE]

\* Nothing of package archive has run: no file exists and no call was made.
ArchiveIdle ==
    /\ tree = <<>>
    /\ reader = <<>>
    /\ codec = [pc |-> "idle", err |-> "none", n |-> 0, header |-> NoHeader]

\* No identifier is being parsed.
NoIdentifier == [err |-> "none", typ |-> <<>>, scheme |-> <<>>, registry |-> <<>>,
                 namespace |-> <<>>, name |-> <<>>, path |-> <<>>]

NoOptions == [DefaultScheme |-> <<>>, DefaultRegistry |-> <<>>, DefaultNamespace |-> <<>>]

\* Nothing of package reference has run.
ReferenceIdle ==
    ident = [pc |-> "idle", text |-> <<>>, contextType |-> <<>>,
             options |-> NoOptions, id |-> NoIdentifier, first |-> NoIdentifier]

\* No call site has failed and nothing was logged.
NoSite == [op |-> "none", code |-> "none", message |-> "", keys |-> <<>>]
NoRun == [err |-> "", error |-> <<>>, log |-> <<>>]
LoggerIdle == logger = [site |-> NoSite, runs |-> <<NoRun, NoRun>>]

\* Neither package archive nor package reference has been called.
PackagesIdle == ArchiveIdle /\ ReferenceIdle /\ LoggerIdle

\* The registry right after NewSQLRegistry over an empty database.
RegistryIdle ==
    /\ namespaces = <<>>
    /\ resources = <<>>
    /\ versions = <<>>
    /\ channels = <<>>
    /\ files = <<>>
    /\ mu = NoProc
    /\ clock = 0
    /\ pc = [p \in Procs |-> "idle"]
    /\ call = [p \in Procs |-> NoArgs]
    /\ ret = [p \in Procs |-> "none"]
    /\ cancelled = [p \in Procs |-> FALSE]
    /\ staged = [p \in Procs |-> NoStaged]
    /\ result = [p \in Procs |-> NoResult]

Init == RegistryIdle /\ PackagesIdle

\* The system clock advances.
Tick ==
    /\ clock < MaxClock
    /\ clock' = clock + 1
    /\ UNCHANGED <<db, files, mu, pc, call, ret, cancelled, staged, result, packages>>

-----------------------------------------------------------------------------
(* Namespaces *)

CreateNamespace(p, name, d, c) ==
    /\ pc[p] = "idle"
    /\ IF ~validateNamespace(name)
       THEN Return(p, "CreateNamespace", "bad_request", FALSE) /\ UNCHANGED namespaces
       ELSE LET r == insertNamespace(c, name, d)
            IN  /\ namespaces' = r.tbl
                /\ IF r.err = "nil" THEN Return(p, "CreateNamespace", "ok", c)
                   ELSE Goto(p, "cns_probe",
                             [NoArgs EXCEPT !.op = "CreateNamespace", !.name = name,
                                            !.desc = d], c)
    /\ UNCHANGED <<resources, versions, channels, files, mu, clock, staged>>

\* The follow-up probe after a failed insert.
CreateNamespaceProbe(p) ==
    /\ pc[p] = "cns_probe"
    /\ \E c \in Ctx(p) :
        IF getNamespace(c, call[p].name) = "nil"
        THEN Return(p, "CreateNamespace", "namespace_exists", c)
        ELSE Return(p, "CreateNamespace", "internal_error", c)
    /\ UNCHANGED <<db, files, mu, clock, staged>>

DeleteNamespace(p, ns, c) ==
    /\ pc[p] = "idle"
    /\ IF ~validateNamespace(ns)
       THEN Return(p, "DeleteNamespace", "bad_request", FALSE) /\ UNCHANGED namespaces
       ELSE LET r == deleteNamespace(c, ns)
            IN  /\ namespaces' = r.tbl
                /\ IF r.err # "nil" THEN Return(p, "DeleteNamespace", "internal_error", c)
                   ELSE Return(p, "DeleteNamespace", "ok", c)
    /\ UNCHANGED <<resources, versions, channels, files, mu, clock, staged>>

-----------------------------------------------------------------------------
(* Resources *)

CreateResource(p, ns, name, t, d, c) ==
    /\ pc[p] = "idle"
    /\ IF ~validateIdentifier(ns, name)
       THEN Return(p, "CreateResource", "bad_request", FALSE) /\ UNCHANGED resources
       ELSE LET r == insertResource(c, ns, name, t, d)
            IN  /\ resources' = r.tbl
                /\ IF r.err = "nil" THEN Return(p, "CreateResource", "ok", c)
                   ELSE Goto(p, "cres_probe",
                             [NoArgs EXCEPT !.op = "CreateResource", !.ns = ns,
                                            !.name = name, !.desc = d], c)
    /\ UNCHANGED <<namespaces, versions, channels, files, mu, clock, staged>>

\* First probe: does the resource exist?
\* Variant: a probe that finds the row reports the creation as successful.
CreateResourceProbe_adoptsRow(p) ==
    /\ pc[p] = "cres_probe"
    /\ \E c \in Ctx(p) :
        IF getResource(c, call[p].ns, call[p].name) = "nil"
        THEN Return(p, "CreateResource", "ok", c)
        ELSE Goto(p, "cres_parent", call[p], c)
    /\ UNCHANGED <<db, files, mu, clock, staged>>

CreateResourceProbe(p) ==
    /\ pc[p] = "cres_probe"
    /\ \E c \in Ctx(p) :
        IF getResource(c, call[p].ns, call[p].name) = "nil"
        THEN Return(p, "CreateResource", "resource_exists", c)
        ELSE Goto(p, "cres_parent", call[p], c)
    /\ UNCHANGED <<db, files, mu, clock, staged>>

\* Second probe: is the namespace missing?
CreateResourceParent(p) ==
    /\ pc[p] = "cres_parent"
    /\ \E c \in Ctx(p) :
        IF getNamespace(c, call[p].ns) = "norows"
        THEN Return(p, "CreateResource", "not_found", c)
        ELSE Return(p, "CreateResource", "internal_error", c)
    /\ UNCHANGED <<db, files, mu, clock, staged>>

DeleteResource(p, ns, res, c) ==
    /\ pc[p] = "idle"
    /\ IF ~validateIdentifier(ns, res)
       THEN Return(p, "DeleteResource", "bad_request", FALSE) /\ UNCHANGED resources
       ELSE LET r == deleteResource(c, ns, res)
            IN  /\ resources' = r.tbl
                /\ IF r.err # "nil" THEN Return(p, "DeleteResource", "internal_error", c)
                   ELSE Return(p, "DeleteResource", "ok", c)
    /\ UNCHANGED <<namespaces, versions, channels, files, mu, clock, staged>>

-----------------------------------------------------------------------------
(* Versions *)

CreateVersion(p, ns, res, s, c) ==
    /\ pc[p] = "idle"
    /\ IF ~validateReference(ns, res, s)
       THEN Return(p, "CreateVersion", "bad_request", FALSE) /\ UNCHANGED versions
       ELSE LET r == insertVersion(c, ns, res, s)
            IN  /\ versions' = r.tbl
                /\ IF r.err = "nil" THEN Return(p, "CreateVersion", "ok", c)
                   ELSE Goto(p, "cver_probe",
                             [NoArgs EXCEPT !.op = "CreateVersion", !.ns = ns,
                                            !.res = res, !.ver = s], c)
    /\ UNCHANGED <<namespaces, resources, channels, files, mu, clock, staged>>

CreateVersionProbe(p) ==
    /\ pc[p] = "cver_probe"
    /\ \E c \in Ctx(p) :
        IF getVersion(c, call[p].ns, call[p].res, call[p].ver) = "nil"
        THEN Return(p, "CreateVersion", "version_exists", c)
        ELSE Goto(p, "cver_parent", call[p], c)
    /\ UNCHANGED <<db, files, mu, clock, staged>>

CreateVersionParent(p) ==
    /\ pc[p] = "cver_parent"
    /\ \E c \in Ctx(p) :
        IF getResource(c, call[p].ns, call[p].res) = "norows"
        THEN Return(p, "CreateVersion", "not_found", c)
        ELSE Return(p, "CreateVersion", "internal_error", c)
    /\ UNCHANGED <<db, files, mu, clock, staged>>

\* Variant: the read waits until no upload holds the lock.
ReadVersion_underLock(p, ns, res, s, c) ==
    /\ pc[p] = "idle"
    /\ mu = NoProc
    /\ IF ~validateReference(ns, res, s)
       THEN Return(p, "ReadVersion", "bad_request", FALSE)
       ELSE LET e == getVersion(c, ns, res, s)
            IN  IF e = "norows" THEN Return(p, "ReadVersion", "not_found", c)
                ELSE IF e # "nil" THEN Return(p, "ReadVersion", "internal_error", c)
                ELSE Respond(p, "ReadVersion", "ok", c, scanVersion(ns, res, s))
    /\ UNCHANGED <<db, files, mu, clock, staged>>

ReadVersion(p, ns, res, s, c) ==
    /\ pc[p] = "idle"
    /\ IF ~validateReference(ns, res, s)
       THEN Return(p, "ReadVersion", "bad_request", FALSE)
       ELSE LET e == getVersion(c, ns, res, s)
            IN  IF e = "norows" THEN Return(p, "ReadVersion", "not_found", c)
                ELSE IF e # "nil" THEN Return(p, "ReadVersion", "internal_error", c)
                ELSE Respond(p, "ReadVersion", "ok", c, scanVersion(ns, res, s))
    /\ UNCHANGED <<db, files, mu, clock, staged>>

UpdateVersion(p, ns, res, s, c) ==
    /\ pc[p] = "idle"
    /\ IF ~validateReference(ns, res, s)
       THEN Return(p, "UpdateVersion", "bad_request", FALSE) /\ UNCHANGED versions
       ELSE LET r == updateVersion(c, ns, res, s)
            IN  /\ versions' = r.tbl
                /\ IF r.err = "norows" THEN Return(p, "UpdateVersion", "not_found", c)
                   ELSE IF r.err # "nil"
                        THEN Return(p, "UpdateVersion", "internal_error", c)
                   ELSE Goto(p, "uver_get",
                             [NoArgs EXCEPT !.op = "UpdateVersion", !.ns = ns,
                                            !.res = res, !.ver = s], c)
    /\ UNCHANGED <<namespaces, resources, channels, files, mu, clock, staged>>

\* The query at the end of updateVersion.
UpdateVersionGet(p) ==
    /\ pc[p] = "uver_get"
    /\ \E c \in Ctx(p) :
        LET e == getVersion(c, call[p].ns, call[p].res, call[p].ver)
        IN  IF e = "norows" THEN Return(p, "UpdateVersion", "not_found", c)
            ELSE IF e # "nil" THEN Return(p, "UpdateVersion", "internal_error", c)
            ELSE Respond(p, "UpdateVersion", "ok", c,
                         scanVersion(call[p].ns, call[p].res, call[p].ver))
    /\ UNCHANGED <<db, files, mu, clock, staged>>

\* Variant: a successful delete also removes the blob the row pointed at.
DeleteVersion_removesBlob(p, ns, res, s, c) ==
    /\ pc[p] = "idle"
    /\ IF ~validateReference(ns, res, s)
       THEN /\ Return(p, "DeleteVersion", "bad_request", FALSE)
            /\ UNCHANGED <<versions, files>>
       ELSE LET r == deleteVersion(c, ns, res, s)
            IN  /\ versions' = r.tbl
                /\ IF r.err # "nil"
                   THEN /\ Return(p, "DeleteVersion", "internal_error", c)
                        /\ files' = files
                   ELSE /\ Return(p, "DeleteVersion", "ok", c)
                        /\ files' = IF /\ <<ns, res, s>> \in DOMAIN versions
                                       /\ versions[<<ns, res, s>>].path # NULL
                                    THEN Del(files, versions[<<ns, res, s>>].path[1])
                                    ELSE files
    /\ UNCHANGED <<namespaces, resources, channels, mu, clock, staged>>

DeleteVersion(p, ns, res, s, c) ==
    /\ pc[p] = "idle"
    /\ IF ~validateReference(ns, res, s)
       THEN Return(p, "DeleteVersion", "bad_request", FALSE) /\ UNCHANGED versions
       ELSE LET r == deleteVersion(c, ns, res, s)
            IN  /\ versions' = r.tbl
                /\ IF r.err # "nil" THEN Return(p, "DeleteVersion", "internal_error", c)
                   ELSE Return(p, "DeleteVersion", "ok", c)
    /\ UNCHANGED <<namespaces, resources, channels, files, mu, clock, staged>>

-----------------------------------------------------------------------------
(* Channels *)

CreateChannel(p, ns, res, name, tgt, d, c) ==
    /\ pc[p] = "idle"
    /\ LET a == [NoArgs EXCEPT !.op = "CreateChannel", !.ns = ns, !.res = res,
                               !.name = name, !.tgt = tgt, !.desc = d]
       IN  IF ~validateChannelInfo(ns, res, name, tgt)
           THEN Return(p, "CreateChannel", "bad_request", FALSE) /\ UNCHANGED channels
           ELSE LET r == insertChannel(c, ns, res, name, d, tgt)
                IN  /\ channels' = r.tbl
                    /\ IF r.err = "nil" THEN Goto(p, "cch_get", a, c)
                       ELSE Goto(p, "cch_probe", a, c)
    /\ UNCHANGED <<namespaces, resources, versions, files, mu, clock, staged>>

CreateChannelProbe(p) ==
    /\ pc[p] = "cch_probe"
    /\ \E c \in Ctx(p) :
        IF getChannel(c, call[p].ns, call[p].res, call[p].name) = "nil"
        THEN Return(p, "CreateChannel", "channel_exists", c)
        ELSE Goto(p, "cch_parent", call[p], c)
    /\ UNCHANGED <<db, files, mu, clock, staged>>

CreateChannelParent(p) ==
    /\ pc[p] = "cch_parent"
    /\ \E c \in Ctx(p) :
        IF getResource(c, call[p].ns, call[p].res) = "norows"
        THEN Return(p, "CreateChannel", "not_found", c)
        ELSE Return(p, "CreateChannel", "internal_error", c)
    /\ UNCHANGED <<db, files, mu, clock, staged>>

\* The refetch of the newly created channel.
CreateChannelGet(p) ==
    /\ pc[p] = "cch_get"
    /\ \E c \in Ctx(p) :
        IF getChannel(c, call[p].ns, call[p].res, call[p].name) # "nil"
        THEN Return(p, "CreateChannel", "internal_error", c)
        ELSE Respond(p, "CreateChannel", "ok", c,
                     scanChannel(call[p].ns, call[p].res, call[p].name))
    /\ UNCHANGED <<db, files, mu, clock, staged>>

\* UpdateChannel(ns, res, channel, info): ch is the channel argument, name is
\* info.Name.  The facade validates info and passes info to updateChannel.
UpdateChannel(p, ns, res, ch, name, tgt, d, c) ==
    /\ pc[p] = "idle"
    /\ IF ~validateChannelInfo(ns, res, name, tgt)
       THEN Return(p, "UpdateChannel", "bad_request", FALSE) /\ UNCHANGED channels
       ELSE LET r == updateChannelStmt(c, ns, res, name, d, tgt)
            IN  /\ channels' = r.tbl
                /\ IF r.err = "norows" THEN Return(p, "UpdateChannel", "not_found", c)
                   ELSE IF r.err # "nil"
                        THEN Return(p, "UpdateChannel", "internal_error", c)
                   ELSE Goto(p, "uch_get",
                             [NoArgs EXCEPT !.op = "UpdateChannel", !.ns = ns,
                                            !.res = res, !.ch = ch, !.name = name,
                                            !.tgt = tgt, !.desc = d], c)
    /\ UNCHANGED <<namespaces, resources, versions, files, mu, clock, staged>>

\* The query at the end of updateChannel, by info.Name.
UpdateChannelGet(p) ==
    /\ pc[p] = "uch_get"
    /\ \E c \in Ctx(p) :
        LET e == getChannel(c, call[p].ns, call[p].res, call[p].name)
        IN  IF e = "norows" THEN Return(p, "UpdateChannel", "not_found", c)
            ELSE IF e # "nil" THEN Return(p, "UpdateChannel", "internal_error", c)
            ELSE Respond(p, "UpdateChannel", "ok", c,
                         scanChannel(call[p].ns, call[p].res, call[p].name))
    /\ UNCHANGED <<db, files, mu, clock, staged>>

ReadChannel(p, ns, res, ch, c) ==
    /\ pc[p] = "idle"
    /\ IF ~validateChannelReference(ns, res, ch)
       THEN Return(p, "ReadChannel", "bad_request", FALSE)
       ELSE LET e == getChannel(c, ns, res, ch)
            IN  IF e = "norows" THEN Return(p, "ReadChannel", "not_found", c)
                ELSE IF e # "nil" THEN Return(p, "ReadChannel", "internal_error", c)
                ELSE Respond(p, "ReadChannel", "ok", c, scanChannel(ns, res, ch))
    /\ UNCHANGED <<db, files, mu, clock, staged>>

DeleteChannel(p, ns, res, ch, c) ==
    /\ pc[p] = "idle"
    /\ IF ~validateChannelReference(ns, res, ch)
       THEN Return(p, "DeleteChannel", "bad_request", FALSE) /\ UNCHANGED channels
       ELSE LET r == deleteChannel(c, ns, res, ch)
            IN  /\ channels' = r.tbl
                /\ IF r.err # "nil" THEN Return(p, "DeleteChannel", "internal_error", c)
                   ELSE Return(p, "DeleteChannel", "ok", c)
    /\ UNCHANGED <<namespaces, resources, versions, files, mu, clock, staged>>

-----------------------------------------------------------------------------
(* Archives *)

\* os.Remove: removes the file if it exists.
\* Variant: the file is left in place.
Remove_keepsFile(fs, path) == fs

\* os.Remove
Remove(fs, path) == Del(fs, path)

\* UploadArchive up to the acquisition of the lock.
UploadArchive(p, ns, res, v) ==
    /\ pc[p] = "idle"
    /\ IF ~validateReference(ns, res, v)
       THEN Return(p, "UploadArchive", "bad_request", FALSE)
       ELSE Goto(p, "up_lock",
                 [NoArgs EXCEPT !.op = "UploadArchive", !.ns = ns, !.res = res,
                                !.ver = v], FALSE)
    /\ UNCHANGED <<db, files, mu, clock, staged>>

\* Variant: the lock is taken without waiting for its holder.
UploadLock_withoutWaiting(p) ==
    /\ pc[p] = "up_lock"
    /\ mu' = p
    /\ Goto(p, "up_stage", call[p], cancelled[p])
    /\ UNCHANGED <<db, files, clock, staged>>

\* r.mu.Lock()
UploadLock(p) ==
    /\ pc[p] = "up_lock"
    /\ mu = NoProc
    /\ mu' = p
    /\ Goto(p, "up_stage", call[p], cancelled[p])
    /\ UNCHANGED <<db, files, clock, staged>>

\* The caller's context is cancelled while UploadArchive waits for the lock
\* or ingests the blob; storeArchiveFile does not look at the context, the
\* metadata update is the first statement that does.
Cancel(p) ==
    /\ pc[p] \in {"up_lock", "up_stage", "up_commit"}
    /\ ~cancelled[p]
    /\ cancelled' = [cancelled EXCEPT ![p] = TRUE]
    /\ UNCHANGED <<db, files, mu, clock, pc, call, ret, staged, result, packages>>

\* Variant: an error return that leaves the lock held.
UploadReturn_keepsLock(p, code, c) ==
    /\ mu' = mu
    /\ staged' = [staged EXCEPT ![p] = NoStaged]
    /\ Return(p, "UploadArchive", code, c)

\* A return of UploadArchive: the deferred r.mu.Unlock() runs.
UploadReturn(p, code, c) ==
    /\ mu' = NoProc
    /\ staged' = [staged EXCEPT ![p] = NoStaged]
    /\ Return(p, "UploadArchive", code, c)

\* The successful return of UploadArchive, with the refetched Version.
UploadRespond(p, c, v) ==
    /\ mu' = NoProc
    /\ staged' = [staged EXCEPT ![p] = NoStaged]
    /\ Respond(p, "UploadArchive", "ok", c, v)

\* storeArchiveFile, first half: MkdirAll, Create of the temporary file,
\* io.Copy through the hasher.  data: the bytes the reader yields; fault:
\* the call that fails ("read": the reader, in mid-stream).  call[p].data
\* is what the hasher has seen.
UploadStage(p, data, fault) ==
    /\ pc[p] = "up_stage"
    /\ LET temp == archiveTempPath(call[p].ns, call[p].res, call[p].ver)
       IN  IF fault \in {"mkdir", "create"}
           THEN files' = files /\ UploadReturn(p, "internal_error", cancelled[p])
           ELSE IF fault = "read"
           THEN files' = Remove(Put(files, temp, <<>>), temp)
                /\ UploadReturn(p, "internal_error", cancelled[p])
           ELSE /\ files' = Put(files, temp, data)
                /\ UNCHANGED <<mu, staged>>
                /\ Goto(p, "up_commit", [call[p] EXCEPT !.data = data], cancelled[p])
    /\ UNCHANGED <<db, clock>>

\* storeArchiveFile, second half: digest, Close, Rename to the final path.
\* os.Rename fails when the temporary file is not there.
UploadCommit(p, fault) ==
    /\ pc[p] = "up_commit"
    /\ LET temp == archiveTempPath(call[p].ns, call[p].res, call[p].ver)
           digest == DigestOf(call[p].data)
           path == archiveFinalPath(call[p].ns, call[p].res, call[p].ver, digest)
       IN  IF fault \in {"close", "rename"} \/ temp \notin DOMAIN files
           THEN /\ files' = Remove(files, temp)
                /\ UploadReturn(p, "internal_error", cancelled[p])
           ELSE /\ files' = Put(Del(files, temp), path, files[temp])
                /\ staged' = [staged EXCEPT ![p] =
                       [digest |-> digest, path |-> path, size |-> Len(call[p].data)]]
                /\ mu' = mu
                /\ Goto(p, "up_update", call[p], cancelled[p])
    /\ UNCHANGED <<db, clock>>

\* The metadata update; on any error the file at archivePath is removed.
UploadUpdate(p) ==
    /\ pc[p] = "up_update"
    /\ \E c \in Ctx(p) :
        LET r == uploadArchive(c, call[p].ns, call[p].res, call[p].ver,
                               staged[p].digest, staged[p].path, staged[p].size)
        IN  /\ versions' = r.tbl
            /\ IF r.err # "nil"
               THEN /\ files' = Remove(files, staged[p].path)
                    /\ IF r.err = "norows" THEN UploadReturn(p, "not_found", c)
                       ELSE UploadReturn(p, "internal_error", c)
               ELSE /\ files' = files
                    /\ UNCHANGED <<mu, staged>>
                    /\ Goto(p, "up_get", call[p], c)
    /\ UNCHANGED <<namespaces, resources, channels, clock>>

\* The refetch of the version for the response.
UploadGet(p) ==
    /\ pc[p] = "up_get"
    /\ \E c \in Ctx(p) :
        IF getVersion(c, call[p].ns, call[p].res, call[p].ver) # "nil"
        THEN UploadReturn(p, "internal_error", c)
        ELSE UploadRespond(p, c, scanVersion(call[p].ns, call[p].res, call[p].ver))
    /\ UNCHANGED <<db, files, clock>>

-----------------------------------------------------------------------------
(* Spec: the lifecycle of one namespace, resource, version and channel,     *)
(* created and deleted by two concurrent callers on an empty registry.      *)

Next ==
    \E p \in Procs :
        \/ \E name \in {NsA, BadName}, d \in Descriptions, c \in BOOLEAN :
               CreateNamespace(p, name, d, c)
        \/ CreateNamespaceProbe(p)
        \/ \E ns \in {NsA, BadName}, c \in BOOLEAN : DeleteNamespace(p, ns, c)
        \/ \E name \in {ResA, BadName}, c \in BOOLEAN :
               CreateResource(p, NsA, name, "widget", "d1", c)
        \/ CreateResourceProbe(p)
        \/ CreateResourceParent(p)
        \/ \E res \in {ResA, BadName}, c \in BOOLEAN : DeleteResource(p, NsA, res, c)
        \/ \E s \in {Ver1, BadVer}, c \in BOOLEAN : CreateVersion(p, NsA, ResA, s, c)
        \/ CreateVersionProbe(p)
        \/ CreateVersionParent(p)
        \/ \E s \in {Ver1, BadVer}, c \in BOOLEAN : DeleteVersion(p, NsA, ResA, s, c)
        \/ \E name \in {Stable, BadName}, c \in BOOLEAN :
               CreateChannel(p, NsA, ResA, name, Ver1, "d1", c)
        \/ CreateChannelProbe(p)
        \/ CreateChannelParent(p)
        \/ CreateChannelGet(p)
        \/ \E ch \in {Stable, BadName}, c \in BOOLEAN : DeleteChannel(p, NsA, ResA, ch, c)

Spec == Init /\ [][Next]_vars

-----------------------------------------------------------------------------
(* SpecChannels: two versions and two channels of one resource.  The        *)
(* registry is constructed over a database that already holds the namespace *)
(* and the resource (the state Spec reaches by CreateNamespace and          *)
(* CreateResource).                                                         *)

InitChannels ==
    /\ namespaces = Put(<<>>, NsA,
           [description |-> "d1", created_at |-> 0, updated_at |-> 0])
    /\ resources = Put(<<>>, <<NsA, ResA>>,
           [type |-> "widget", description |-> "d1", created_at |-> 0, updated_at |-> 0])
    /\ versions = <<>>
    /\ channels = <<>>
    /\ files = <<>>
    /\ mu = NoProc
    /\ clock = 0
    /\ pc = [p \in Procs |-> "idle"]
    /\ call = [p \in Procs |-> NoArgs]
    /\ ret = [p \in Procs |-> "none"]
    /\ cancelled = [p \in Procs |-> FALSE]
    /\ staged = [p \in Procs |-> NoStaged]
    /\ result = [p \in Procs |-> NoResult]
    /\ PackagesIdle

\* Caller p1 issues the version operations, caller p2 the channel operations.
VersionCaller == "p1"
ChannelCaller == "p2"

NextChannels ==
    \/ \E s \in {Ver1, Ver2}, c \in BOOLEAN : CreateVersion(VersionCaller, NsA, ResA, s, c)
    \/ CreateVersionProbe(VersionCaller)
    \/ CreateVersionParent(VersionCaller)
    \/ \E s \in {Ver1, Ver2}, c \in BOOLEAN : DeleteVersion(VersionCaller, NsA, ResA, s, c)
    \/ \E name \in {Stable, Beta}, tgt \in {Ver1, Ver2}, c \in BOOLEAN :
           CreateChannel(ChannelCaller, NsA, ResA, name, tgt, "d1", c)
    \/ CreateChannelProbe(ChannelCaller)
    \/ CreateChannelParent(ChannelCaller)
    \/ CreateChannelGet(ChannelCaller)
    \/ \E ch \in {Stable, Beta}, name \in {Stable, Beta, <<>>}, tgt \in {Ver1, Ver2},
          d \in Descriptions, c \in BOOLEAN :
           UpdateChannel(ChannelCaller, NsA, ResA, ch, name, tgt, d, c)
    \/ UpdateChannelGet(ChannelCaller)
    \/ \E ch \in {Stable, Beta}, c \in BOOLEAN : DeleteChannel(ChannelCaller, NsA, ResA, ch, c)

SpecChannels == InitChannels /\ [][NextChannels]_vars

-----------------------------------------------------------------------------
(* SpecArchive: archive uploads by two concurrent callers to a version that *)
(* is created and deleted concurrently (Ver1) and to a version that never   *)
(* exists (Ver2).  The registry is constructed over a database that already *)
(* holds the namespace and the resource.                                    *)

NextArchive ==
    \E p \in Procs :
        \/ \E c \in BOOLEAN : CreateVersion(p, NsA, ResA, Ver1, c)
        \/ CreateVersionProbe(p)
        \/ CreateVersionParent(p)
        \/ \E c \in BOOLEAN : UpdateVersion(p, NsA, ResA, Ver1, c)
        \/ UpdateVersionGet(p)
        \/ \E c \in BOOLEAN : DeleteVersion(p, NsA, ResA, Ver1, c)
        \/ \E v \in {Ver1, Ver2, BadVer} : UploadArchive(p, NsA, ResA, v)
        \/ UploadLock(p)
        \/ Cancel(p)
        \/ \E data \in Contents, fault \in {"none", "mkdir", "create", "read"} :
               UploadStage(p, data, fault)
        \/ \E fault \in {"none", "close", "rename"} : UploadCommit(p, fault)
        \/ UploadUpdate(p)
        \/ UploadGet(p)

SpecArchive == InitChannels /\ [][NextArchive]_vars

-----------------------------------------------------------------------------
(* SpecRace: two callers, each calling CreateNamespace once with the same   *)
(* name on an empty registry, while the clock advances.                     *)

NextRace ==
    \/ \E p \in Procs, d \in Descriptions, c \in BOOLEAN :
           /\ ret[p] = "none"
           /\ CreateNamespace(p, NsA, d, c)
    \/ \E p \in Procs : CreateNamespaceProbe(p)
    \/ Tick

SpecRace == Init /\ [][NextRace]_vars

-----------------------------------------------------------------------------
(* SpecViews: one caller creates a version and uploads archives to it and   *)
(* reads it, the other creates, updates and reads channels that target it.  *)

NextViews ==
    \/ \E c \in BOOLEAN : CreateVersion(VersionCaller, NsA, ResA, Ver1, c)
    \/ CreateVersionProbe(VersionCaller)
    \/ CreateVersionParent(VersionCaller)
    \/ UploadArchive(VersionCaller, NsA, ResA, Ver1)
    \/ UploadLock(VersionCaller)
    \/ \E data \in Contents : UploadStage(VersionCaller, data, "none")
    \/ UploadCommit(VersionCaller, "none")
    \/ UploadUpdate(VersionCaller)
    \/ UploadGet(VersionCaller)
    \/ \E c \in BOOLEAN : ReadVersion(VersionCaller, NsA, ResA, Ver1, c)
    \/ \E d \in Descriptions, c \in BOOLEAN :
           CreateChannel(ChannelCaller, NsA, ResA, Stable, Ver1, d, c)
    \/ CreateChannelProbe(ChannelCaller)
    \/ CreateChannelParent(ChannelCaller)
    \/ CreateChannelGet(ChannelCaller)
    \/ \E d \in Descriptions, c \in BOOLEAN :
           UpdateChannel(ChannelCaller, NsA, ResA, Stable, Stable, Ver1, d, c)
    \/ UpdateChannelGet(ChannelCaller)
    \/ \E c \in BOOLEAN : ReadChannel(ChannelCaller, NsA, ResA, Stable, c)

SpecViews == InitChannels /\ [][NextViews]_vars

-----------------------------------------------------------------------------
(* Properties of Spec *)

\* C2: no child row is orphaned: every resource's namespace exists, every
\* version's resource exists and every channel's resource exists.
C2_NoOrphans ==
    /\ \A k \in DOMAIN resources : k[1] \in DOMAIN namespaces
    /\ \A k \in DOMAIN versions : <<k[1], k[2]>> \in DOMAIN resources
    /\ \A k \in DOMAIN channels : <<k[1], k[2]>> \in DOMAIN resources

\* All four rows exist and a caller's DeleteResource was refused by the
\* foreign keys.
C2_Witness ==
    /\ DOMAIN channels # {}
    /\ DOMAIN versions # {}
    /\ \E p \in Procs : /\ call[p].op = "DeleteResource"
                        /\ ret[p] = "internal_error"
                        /\ ~cancelled[p]

\* A Delete* call by p with valid names, a live context and a target that
\* does not exist.
DeleteOfMissing(p) ==
    \/ /\ NsA \notin DOMAIN namespaces
       /\ call'[p].op = "DeleteNamespace"
       /\ DeleteNamespace(p, NsA, FALSE)
    \/ /\ <<NsA, ResA>> \notin DOMAIN resources
       /\ call'[p].op = "DeleteResource"
       /\ DeleteResource(p, NsA, ResA, FALSE)
    \/ /\ <<NsA, ResA, Ver1>> \notin DOMAIN versions
       /\ call'[p].op = "DeleteVersion"
       /\ DeleteVersion(p, NsA, ResA, Ver1, FALSE)
    \/ /\ <<NsA, ResA, Stable>> \notin DOMAIN channels
       /\ call'[p].op = "DeleteChannel"
       /\ DeleteChannel(p, NsA, ResA, Stable, FALSE)

-----------------------------------------------------------------------------
(* Properties of SpecChannels *)

\* C1: every channel row's target version exists as a version row of the
\* same namespace and resource.
C1_ChannelTargetExists ==
    \A k \in DOMAIN channels : <<k[1], k[2], channels[k].version>> \in DOMAIN versions

\* Both channels exist, and the deletion of a version was refused while the
\* context was live, that is by the foreign key of a channel.
C1_Witness ==
    /\ DOMAIN channels = {<<NsA, ResA, Stable>>, <<NsA, ResA, Beta>>}
    /\ call[VersionCaller].op = "DeleteVersion"
    /\ ret[VersionCaller] = "internal_error"
    /\ ~cancelled[VersionCaller]

\* C10 as stated: UpdateChannel(ns, res, channel, info) acts on the channel
\* named by its channel argument, whatever info.name contains: it returns
\* not_found when that channel does not exist, it changes no other channel
\* row, and on success that channel has info's target and description.
C10_UpdateActsOnChannelArg ==
    [][\A ch \in {Stable, Beta}, name \in {Stable, Beta, <<>>}, tgt \in {Ver1, Ver2},
          d \in Descriptions :
          LET p == ChannelCaller
              k == <<NsA, ResA, ch>>
          IN  UpdateChannel(p, NsA, ResA, ch, name, tgt, d, FALSE) =>
                /\ k \notin DOMAIN channels => ret'[p] = "not_found"
                /\ \A o \in DOMAIN channels : o # k => channels'[o] = channels[o]
                /\ pc'[p] = "uch_get" =>
                      /\ channels'[k].version = tgt
                      /\ channels'[k].description = d]_vars

-----------------------------------------------------------------------------
(* Properties of SpecArchive *)

\* C3 as stated: every version row whose archive path is set has a blob
\* file on disk at that path, also after failed, cancelled or repeated
\* uploads.
C3_BlobExists ==
    \A k \in DOMAIN versions :
        versions[k].path # NULL => versions[k].path[1] \in DOMAIN files

AllOrNone(row) ==
    \/ row.digest = NULL /\ row.size = NULL /\ row.path = NULL
    \/ row.digest # NULL /\ row.size # NULL /\ row.path # NULL

ArchiveFields(row) == <<row.digest, row.size, row.path>>

\* C4: the archive fields (digest, size, path) of every version row are all
\* null or all set; a row is created with all three null, and they change
\* only in the step of an UploadArchive call whose metadata update
\* succeeded, which sets all three.
C4_ArchiveFieldsAllOrNone ==
    /\ [](\A k \in DOMAIN versions : AllOrNone(versions[k]))
    /\ [][\A k \in DOMAIN versions' :
            IF k \notin DOMAIN versions
            THEN ArchiveFields(versions'[k]) = <<NULL, NULL, NULL>>
            ELSE ArchiveFields(versions'[k]) # ArchiveFields(versions[k]) =>
                   /\ versions'[k].digest # NULL
                   /\ versions'[k].size # NULL
                   /\ versions'[k].path # NULL
                   /\ \E p \in Procs : pc[p] = "up_update" /\ pc'[p] = "up_get"]_vars

\* A version row carries an archive while a second upload to it is past its
\* ingest.
C4_Witness ==
    /\ <<NsA, ResA, Ver1>> \in DOMAIN versions
    /\ versions[<<NsA, ResA, Ver1>>].path # NULL
    /\ versions[<<NsA, ResA, Ver1>>].size # NULL
    /\ versions[<<NsA, ResA, Ver1>>].digest # NULL
    /\ \E p \in Procs : pc[p] = "up_update" /\ call[p].ver = Ver1

\* C5: when the metadata update of UploadArchive is performed (the context
\* is live) and the version does not exist, the call returns not_found, the
\* blob file it wrote is gone when it returns, and no version row is created.
C5_MissingVersionRollsBack ==
    [][\A p \in Procs :
          (/\ pc[p] = "up_update"
           /\ <<call[p].ns, call[p].res, call[p].ver>> \notin DOMAIN versions
           /\ ~cancelled'[p]
           /\ UploadUpdate(p))
          => /\ ret'[p] = "not_found"
             /\ staged[p].path \notin DOMAIN files'
             /\ archiveTempPath(call[p].ns, call[p].res, call[p].ver) \notin DOMAIN files'
             /\ versions' = versions]_vars

\* An upload was answered not_found after the other caller deleted the
\* version; no row and no file are left.
C5_Witness ==
    \E p, q \in Procs :
        /\ call[p].op = "UploadArchive" /\ ret[p] = "not_found"
        /\ call[q].op = "DeleteVersion" /\ ret[q] = "ok"
        /\ versions = <<>>
        /\ files = <<>>

\* C6: once the context of an UploadArchive call is cancelled before its
\* metadata update commits, no step of the call changes a version row, the
\* call does not reach the refetch, and when it returns it returns
\* internal_error with neither its temporary file nor its staged blob left.
C6_CancelledUploadRollsBack ==
    [][\A p \in Procs :
          (/\ pc[p] \in {"up_stage", "up_commit", "up_update"}
           /\ pc'[p] # pc[p]
           /\ cancelled'[p])
          => /\ versions' = versions
             /\ pc'[p] # "up_get"
             /\ pc'[p] = "idle" =>
                   /\ ret'[p] = "internal_error"
                   /\ archiveTempPath(call[p].ns, call[p].res, call[p].ver)
                          \notin DOMAIN files'
                   /\ staged[p].path # <<>> => staged[p].path \notin DOMAIN files']_vars

\* One caller created the version and then had its upload cancelled; the
\* other never called.  The row is without archive and no file is left.
C6_Witness ==
    \E p, q \in Procs :
        /\ call[p].op = "UploadArchive" /\ ret[p] = "internal_error" /\ cancelled[p]
        /\ ret[q] = "none"
        /\ <<NsA, ResA, Ver1>> \in DOMAIN versions
        /\ versions[<<NsA, ResA, Ver1>>].path = NULL
        /\ files = <<>>

InUploadSequence(p) == pc[p] \in {"up_stage", "up_commit", "up_update", "up_get"}

\* C7: at most one UploadArchive call at a time is in the sequence ingest,
\* metadata update, refetch, and the call in it holds the upload lock.
C7_UploadsSerialised ==
    /\ \A p, q \in Procs : (InUploadSequence(p) /\ InUploadSequence(q)) => p = q
    /\ \A p \in Procs : InUploadSequence(p) => mu = p

\* An upload to one version is at its metadata update while an upload to
\* another version waits for the lock.
C7_Witness ==
    \E p, q \in Procs :
        /\ pc[p] = "up_update" /\ call[p].ver = Ver1
        /\ pc[q] = "up_lock" /\ call[q].ver = Ver2

-----------------------------------------------------------------------------
(* Properties of SpecRace *)

\* C8: when both CreateNamespace calls with the same name have returned and
\* neither context was cancelled, one returned success and the other
\* namespace_exists, and the row of that name exists.
C8_OneCreateWins ==
    (\A p \in Procs : call[p].op = "CreateNamespace" /\ pc[p] = "idle" /\ ~cancelled[p])
    => /\ {ret[p] : p \in Procs} = {"ok", "namespace_exists"}
       /\ DOMAIN namespaces = {NsA}

\* Both calls have returned, the second after probing for the row the first
\* inserted at an earlier clock value.
C8_Witness ==
    /\ \A p \in Procs : call[p].op = "CreateNamespace" /\ pc[p] = "idle" /\ ~cancelled[p]
    /\ \E p \in Procs : ret[p] = "namespace_exists"
    /\ NsA \in DOMAIN namespaces
    /\ namespaces[NsA].created_at < clock

-----------------------------------------------------------------------------
(* Properties of SpecViews *)

ChannelOps == {"CreateChannel", "ReadChannel", "UpdateChannel"}

\* C11 as stated: the Version embedded in a Channel returned by
\* CreateChannel, ReadChannel or UpdateChannel equals what ReadVersion
\* returns for the channel's target at that moment, archive fields included.
C11_EmbeddedVersionIsReadVersion ==
    [][\A p \in Procs :
          (/\ result'[p] # result[p] \/ pc'[p] # pc[p]
           /\ pc'[p] = "idle"
           /\ ret'[p] = "ok"
           /\ call'[p].op \in ChannelOps)
          => result'[p].version =
                 scanVersion(result'[p].namespace, result'[p].resource,
                             result'[p].version.string)]_vars

-----------------------------------------------------------------------------
(* Further properties of SpecChannels *)

\* C12 as stated: CreateChannel for a channel name that does not exist, in
\* an existing resource, with a target version that does not exist, returns
\* not_found and creates no channel.
C12_MissingTargetNotFound ==
    [][\A p \in Procs :
          (/\ pc[p] = "cch_parent"
           /\ pc'[p] = "idle"
           /\ ~cancelled'[p]
           /\ <<call[p].ns, call[p].res>> \in DOMAIN resources
           /\ <<call[p].ns, call[p].res, call[p].tgt>> \notin DOMAIN versions
           /\ <<call[p].ns, call[p].res, call[p].name>> \notin DOMAIN channels)
          => /\ ret'[p] = "not_found"
             /\ channels' = channels]_vars


-----------------------------------------------------------------------------
(* Further properties of Spec *)

\* The insert step of a Create* call by p with valid names and a live context
\* for a key that exists.
CreateOfExisting(p) ==
    /\ pc[p] = "idle"
    /\ ~cancelled'[p]
    /\ \/ /\ call'[p].op = "CreateNamespace"
          /\ NsA \in DOMAIN namespaces
          /\ \E d \in Descriptions : CreateNamespace(p, NsA, d, FALSE)
       \/ /\ call'[p].op = "CreateResource"
          /\ <<NsA, ResA>> \in DOMAIN resources
          /\ CreateResource(p, NsA, ResA, "widget", "d1", FALSE)
       \/ /\ call'[p].op = "CreateVersion"
          /\ <<NsA, ResA, Ver1>> \in DOMAIN versions
          /\ CreateVersion(p, NsA, ResA, Ver1, FALSE)
       \/ /\ call'[p].op = "CreateChannel"
          /\ <<NsA, ResA, Stable>> \in DOMAIN channels
          /\ CreateChannel(p, NsA, ResA, Stable, Ver1, "d1", FALSE)

\* The first probe of a Create* call by p, run with a live context while the
\* key of the call exists.
ProbeOfExisting(p) ==
    /\ ~cancelled'[p]
    /\ pc'[p] # pc[p]
    /\ \/ pc[p] = "cns_probe" /\ call[p].name \in DOMAIN namespaces
       \/ pc[p] = "cres_probe" /\ <<call[p].ns, call[p].name>> \in DOMAIN resources
       \/ pc[p] = "cver_probe"
          /\ <<call[p].ns, call[p].res, call[p].ver>> \in DOMAIN versions
       \/ pc[p] = "cch_probe"
          /\ <<call[p].ns, call[p].res, call[p].name>> \in DOMAIN channels

ExistsCode(op) ==
    CASE op = "CreateNamespace" -> "namespace_exists"
      [] op = "CreateResource"  -> "resource_exists"
      [] op = "CreateVersion"   -> "version_exists"
      [] op = "CreateChannel"   -> "channel_exists"

\* C13: a Create* call for a key that exists does not succeed and changes no
\* row at its insert (the existing row keeps every column), goes on to its
\* probe, and the probe finding the key returns namespace_exists,
\* resource_exists, version_exists or channel_exists, changing no row.
C13_CreateExistingReportsExists ==
    [][\A p \in Procs :
          /\ CreateOfExisting(p)
                => /\ db' = db
                   /\ pc'[p] \in {"cns_probe", "cres_probe", "cver_probe", "cch_probe"}
          /\ ProbeOfExisting(p)
                => /\ db' = db
                   /\ pc'[p] = "idle"
                   /\ ret'[p] = ExistsCode(call[p].op)]_vars

\* One caller was told channel_exists and the other version_exists while the
\* rows they named are still there, the namespace row carrying the
\* description of its first creation after a second CreateNamespace with
\* another description was refused.
C13_Witness ==
    /\ \E p, q \in Procs :
          /\ call[p].op = "CreateChannel" /\ ret[p] = "channel_exists"
          /\ call[q].op = "CreateVersion" /\ ret[q] = "version_exists"
    /\ <<NsA, ResA, Stable>> \in DOMAIN channels
    /\ <<NsA, ResA, Ver1>> \in DOMAIN versions

\* The insert step of CreateResource, CreateVersion or CreateChannel by p with
\* valid names and a live context while the parent row is missing.
CreateInMissingParent(p) ==
    /\ pc[p] = "idle"
    /\ ~cancelled'[p]
    /\ \/ /\ call'[p].op = "CreateResource"
          /\ NsA \notin DOMAIN namespaces
          /\ CreateResource(p, NsA, ResA, "widget", "d1", FALSE)
       \/ /\ call'[p].op = "CreateVersion"
          /\ <<NsA, ResA>> \notin DOMAIN resources
          /\ CreateVersion(p, NsA, ResA, Ver1, FALSE)
       \/ /\ call'[p].op = "CreateChannel"
          /\ <<NsA, ResA>> \notin DOMAIN resources
          /\ CreateChannel(p, NsA, ResA, Stable, Ver1, "d1", FALSE)

\* The parent row named by the pending Create* call of p is missing.
ParentMissing(p) ==
    IF call[p].op = "CreateResource" THEN call[p].ns \notin DOMAIN namespaces
    ELSE <<call[p].ns, call[p].res>> \notin DOMAIN resources

\* C14: CreateResource in a namespace that does not exist and CreateVersion
\* or CreateChannel in a resource that does not exist insert no row, go
\* through the probe of the key and the probe of the parent, and return
\* not_found; no step of the call changes a row.
C14_MissingParentNotFound ==
    [][\A p \in Procs :
          /\ CreateInMissingParent(p)
                => /\ db' = db
                   /\ pc'[p] \in {"cres_probe", "cver_probe", "cch_probe"}
          /\ (/\ pc[p] \in {"cres_probe", "cver_probe", "cch_probe"}
              /\ pc'[p] # pc[p]
              /\ ~cancelled'[p]
              /\ ParentMissing(p))
                => /\ db' = db
                   /\ pc'[p] \in {"cres_parent", "cver_parent", "cch_parent"}
          /\ (/\ pc[p] \in {"cres_parent", "cver_parent", "cch_parent"}
              /\ pc'[p] # pc[p]
              /\ ~cancelled'[p]
              /\ ParentMissing(p))
                => /\ db' = db
                   /\ pc'[p] = "idle"
                   /\ ret'[p] = "not_found"]_vars

\* On a registry without any resource, one caller's CreateChannel and the
\* other's CreateVersion were both answered not_found.
C14_Witness ==
    /\ \E p, q \in Procs :
          /\ call[p].op = "CreateChannel" /\ ret[p] = "not_found"
          /\ call[q].op = "CreateVersion" /\ ret[q] = "not_found"
    /\ DOMAIN resources = {}
    /\ DOMAIN versions = {}
    /\ DOMAIN channels = {}

\* A Delete* call by p with valid names and a live context whose target has
\* dependants: a namespace with a resource, a resource with a version or a
\* channel, a version targeted by a channel.
DeleteOfReferenced(p) ==
    /\ pc[p] = "idle"
    /\ ~cancelled'[p]
    /\ \/ /\ call'[p].op = "DeleteNamespace"
          /\ <<NsA, ResA>> \in DOMAIN resources
          /\ DeleteNamespace(p, NsA, FALSE)
       \/ /\ call'[p].op = "DeleteResource"
          /\ \/ <<NsA, ResA, Ver1>> \in DOMAIN versions
             \/ <<NsA, ResA, Stable>> \in DOMAIN channels
          /\ DeleteResource(p, NsA, ResA, FALSE)
       \/ /\ call'[p].op = "DeleteVersion"
          /\ <<NsA, ResA, Stable>> \in DOMAIN channels
          /\ channels[<<NsA, ResA, Stable>>].version = Ver1
          /\ DeleteVersion(p, NsA, ResA, Ver1, FALSE)

-----------------------------------------------------------------------------
(* Teardown: a populated registry on which callers only delete *)

\* A version row as insertVersion leaves it (data = NULL) or as a successful
\* upload of data leaves it.
VersionRow(namespace, resource, version, data) ==
    IF data = NULL
    THEN [digest |-> NULL, size |-> NULL, path |-> NULL,
          created_at |-> 0, updated_at |-> 0]
    ELSE [digest |-> <<DigestOf(data)>>, size |-> <<Len(data)>>,
          path |-> <<archiveFinalPath(namespace, resource, version, DigestOf(data))>>,
          created_at |-> 0, updated_at |-> 0]

\* The registry holds namespace NsA with resource ResA, any set of the
\* versions 1.0.0 and 2.0.0, each with or without an uploaded archive (whose
\* blob is on disk), and any channels targeting versions that exist.
InitTeardown ==
    /\ namespaces = Put(<<>>, NsA,
           [description |-> "d1", created_at |-> 0, updated_at |-> 0])
    /\ resources = Put(<<>>, <<NsA, ResA>>,
           [type |-> "widget", description |-> "d1", created_at |-> 0, updated_at |-> 0])
    /\ \E vs \in SUBSET {Ver1, Ver2} :
       \E data \in [vs -> {NULL, <<7>>}] :
          /\ versions = [k \in {<<NsA, ResA, s>> : s \in vs} |->
                            VersionRow(NsA, ResA, k[3], data[k[3]])]
          /\ files = [f \in {archiveFinalPath(NsA, ResA, s, DigestOf(data[s])) :
                                s \in {x \in vs : data[x] # NULL}} |-> <<7>>]
          /\ \E cs \in SUBSET {Stable, Beta} :
             \E tgt \in [cs -> vs] :
                channels = [k \in {<<NsA, ResA, ch>> : ch \in cs} |->
                               [description |-> "d1", version |-> tgt[k[3]],
                                created_at |-> 0, updated_at |-> 0]]
    /\ mu = NoProc
    /\ clock = 0
    /\ pc = [p \in Procs |-> "idle"]
    /\ call = [p \in Procs |-> NoArgs]
    /\ ret = [p \in Procs |-> "none"]
    /\ cancelled = [p \in Procs |-> FALSE]
    /\ staged = [p \in Procs |-> NoStaged]
    /\ result = [p \in Procs |-> NoResult]
    /\ PackagesIdle

NextTeardown ==
    \E p \in Procs, c \in BOOLEAN :
        \/ \E ch \in {Stable, Beta} : DeleteChannel(p, NsA, ResA, ch, c)
        \/ \E s \in {Ver1, Ver2} : DeleteVersion(p, NsA, ResA, s, c)
        \/ DeleteResource(p, NsA, ResA, c)
        \/ DeleteNamespace(p, NsA, c)

\* A Delete* call with a live context on a row that exists and has no
\* dependants.
BottomUpDelete ==
    \E p \in Procs :
        \/ \E ch \in {Stable, Beta} :
              /\ <<NsA, ResA, ch>> \in DOMAIN channels
              /\ DeleteChannel(p, NsA, ResA, ch, FALSE)
        \/ \E s \in {Ver1, Ver2} :
              /\ <<NsA, ResA, s>> \in DOMAIN versions
              /\ ~IsTargeted(NsA, ResA, s)
              /\ DeleteVersion(p, NsA, ResA, s, FALSE)
        \/ /\ <<NsA, ResA>> \in DOMAIN resources
           /\ ~HasVersions(NsA, ResA)
           /\ ~HasChannels(NsA, ResA)
           /\ DeleteResource(p, NsA, ResA, FALSE)
        \/ /\ NsA \in DOMAIN namespaces
           /\ ~HasResources(NsA)
           /\ DeleteNamespace(p, NsA, FALSE)

\* A client that tears the registry down keeps calling: every call is one
\* statement and returns.
SpecTeardown == InitTeardown /\ [][NextTeardown]_vars /\ WF_vars(BottomUpDelete)

-----------------------------------------------------------------------------
(* Reads, metadata updates, lists and downloads *)

\* The call goes on to its next statement holding the value v it scanned.
Proceed(p, l, a, c, v) ==
    /\ pc' = [pc EXCEPT ![p] = l]
    /\ ret' = [ret EXCEPT ![p] = "pending"]
    /\ cancelled' = [cancelled EXCEPT ![p] = c]
    /\ call' = [call EXCEPT ![p] = a]
    /\ result' = [result EXCEPT ![p] = v]
    /\ UNCHANGED packages

\* Variant: the number of rows affected is not looked at.
updateNamespaceStmt_anyRows(cx, namespace, description) ==
    IF cx THEN Res("ctx", namespaces)
    ELSE IF namespace \notin DOMAIN namespaces THEN Res("nil", namespaces)
    ELSE Res("nil", [namespaces EXCEPT ![namespace] =
             [@ EXCEPT !.description = description, !.updated_at = clock]])

\* The UPDATE of updateNamespace and its RowsAffected test.
updateNamespaceStmt(cx, namespace, description) ==
    IF cx THEN Res("ctx", namespaces)
    ELSE IF namespace \notin DOMAIN namespaces THEN Res("norows", namespaces)
    ELSE Res("nil", [namespaces EXCEPT ![namespace] =
             [@ EXCEPT !.description = description, !.updated_at = clock]])

\* The UPDATE of updateResource and its RowsAffected test.
updateResourceStmt(cx, namespace, resource, type, description) ==
    IF cx THEN Res("ctx", resources)
    ELSE IF <<namespace, resource>> \notin DOMAIN resources THEN Res("norows", resources)
    ELSE Res("nil", [resources EXCEPT ![<<namespace, resource>>] =
             [@ EXCEPT !.type = type, !.description = description,
                       !.updated_at = clock]])

\* The list queries: a cancelled context is their only error.
listQuery(cx) == IF cx THEN "ctx" ELSE "nil"

\* The Namespace getNamespace builds from the row it scanned.
scanNamespace(name) ==
    [name |-> name, description |-> namespaces[name].description,
     created_at |-> namespaces[name].created_at,
     updated_at |-> namespaces[name].updated_at]

\* The Resource getResource builds from the row it scanned.
scanResource(namespace, resource) ==
    LET row == resources[<<namespace, resource>>]
    IN  [namespace |-> namespace, name |-> resource, type |-> row.type,
         description |-> row.description,
         created_at |-> row.created_at, updated_at |-> row.updated_at]

\* The summaries of sql/namespaces/list.sql as listNamespaces scans them:
\* name, description, created_at and COUNT(resources.name) over the left join
\* with resources; UpdatedAt is not selected and keeps its zero value.
listNamespaces ==
    { LET joined == IF \E k \in DOMAIN resources : k[1] = n
                    THEN {k[2] : k \in {x \in DOMAIN resources : x[1] = n}}
                    ELSE {NULL}
      IN  [name |-> n,
           description |-> namespaces[n].description,
           created_at |-> namespaces[n].created_at,
           updated_at |-> 0,
           resource_count |-> Cardinality(joined \ {NULL})] : n \in DOMAIN namespaces }

\* The summaries of sql/resources/list.sql as listResources scans them: the
\* resource's columns, COUNT(DISTINCT versions.string), COUNT(DISTINCT
\* channels.name) and MAX(versions.string), in byte order, over the left
\* joins with versions and channels; LatestVersion stays nil for a NULL.
listResources(namespace) ==
    { LET vs == {k[3] : k \in {x \in DOMAIN versions : x[1] = namespace /\ x[2] = r}}
          cs == {k[3] : k \in {x \in DOMAIN channels : x[1] = namespace /\ x[2] = r}}
          joined == (IF vs = {} THEN {NULL} ELSE vs) \X (IF cs = {} THEN {NULL} ELSE cs)
          bytes == <<"-", ".", "0", "1", "2", "3", "4", "5", "6", "7", "8", "9">>
          rank(c) == CHOOSE i \in 1..Len(bytes) : bytes[i] = c
          Before(x, y) ==
              \E i \in 1..Len(y) :
                  /\ \A k \in 1..(i - 1) : k <= Len(x) /\ x[k] = y[k]
                  /\ \/ i = Len(x) + 1
                     \/ i <= Len(x) /\ rank(x[i]) < rank(y[i])
          strings == {j[1] : j \in joined} \ {NULL}
          row == resources[<<namespace, r>>]
      IN  [name |-> r, type |-> row.type, description |-> row.description,
           created_at |-> row.created_at, updated_at |-> row.updated_at,
           version_count |-> Cardinality(strings),
           channel_count |-> Cardinality({j[2] : j \in joined} \ {NULL}),
           latest_version |-> IF strings = {} THEN NULL
                              ELSE CHOOSE v \in strings :
                                       \A w \in strings \ {v} : Before(w, v)]
      : r \in {k[2] : k \in {x \in DOMAIN resources : x[1] = namespace}} }
listVersions(namespace, resource) ==
    {k[3] : k \in {x \in DOMAIN versions : x[1] = namespace /\ x[2] = resource}}
listChannels(namespace, resource) ==
    {k[3] : k \in {x \in DOMAIN channels : x[1] = namespace /\ x[2] = resource}}

ReadNamespace(p, ns, c) ==
    /\ pc[p] = "idle"
    /\ IF ~validateNamespace(ns)
       THEN Return(p, "ReadNamespace", "bad_request", FALSE)
       ELSE LET e == getNamespace(c, ns)
            IN  IF e = "norows" THEN Return(p, "ReadNamespace", "not_found", c)
                ELSE IF e # "nil" THEN Return(p, "ReadNamespace", "internal_error", c)
                ELSE Proceed(p, "rns_list",
                             [NoArgs EXCEPT !.op = "ReadNamespace", !.ns = ns], c,
                             scanNamespace(ns))
    /\ UNCHANGED <<db, files, mu, clock, staged>>

\* The resource summaries of ReadNamespace and UpdateNamespace.
NamespaceList(p) ==
    /\ pc[p] \in {"rns_list", "uns_list"}
    /\ \E c \in Ctx(p) :
        IF listQuery(c) # "nil" THEN Return(p, call[p].op, "internal_error", c)
        ELSE Respond(p, call[p].op, "ok", c,
                     [namespace |-> result[p], resources |-> listResources(call[p].ns)])
    /\ UNCHANGED <<db, files, mu, clock, staged>>

UpdateNamespace(p, ns, d, c) ==
    /\ pc[p] = "idle"
    /\ IF ~validateNamespace(ns)
       THEN Return(p, "UpdateNamespace", "bad_request", FALSE) /\ UNCHANGED namespaces
       ELSE LET r == updateNamespaceStmt(c, ns, d)
            IN  /\ namespaces' = r.tbl
                /\ IF r.err = "norows" THEN Return(p, "UpdateNamespace", "not_found", c)
                   ELSE IF r.err # "nil"
                        THEN Return(p, "UpdateNamespace", "internal_error", c)
                   ELSE Goto(p, "uns_get",
                             [NoArgs EXCEPT !.op = "UpdateNamespace", !.ns = ns,
                                            !.desc = d], c)
    /\ UNCHANGED <<resources, versions, channels, files, mu, clock, staged>>

\* The query at the end of updateNamespace.
UpdateNamespaceGet(p) ==
    /\ pc[p] = "uns_get"
    /\ \E c \in Ctx(p) :
        LET e == getNamespace(c, call[p].ns)
        IN  IF e = "norows" THEN Return(p, "UpdateNamespace", "not_found", c)
            ELSE IF e # "nil" THEN Return(p, "UpdateNamespace", "internal_error", c)
            ELSE Proceed(p, "uns_list", call[p], c, scanNamespace(call[p].ns))
    /\ UNCHANGED <<db, files, mu, clock, staged>>

ListNamespaces(p, c) ==
    /\ pc[p] = "idle"
    /\ IF listQuery(c) # "nil" THEN Return(p, "ListNamespaces", "internal_error", c)
       ELSE Respond(p, "ListNamespaces", "ok", c, [namespaces |-> listNamespaces])
    /\ UNCHANGED <<db, files, mu, clock, staged>>

ReadResource(p, ns, res, c) ==
    /\ pc[p] = "idle"
    /\ IF ~validateIdentifier(ns, res)
       THEN Return(p, "ReadResource", "bad_request", FALSE)
       ELSE LET e == getResource(c, ns, res)
            IN  IF e = "norows" THEN Return(p, "ReadResource", "not_found", c)
                ELSE IF e # "nil" THEN Return(p, "ReadResource", "internal_error", c)
                ELSE Proceed(p, "rres_versions",
                             [NoArgs EXCEPT !.op = "ReadResource", !.ns = ns,
                                            !.res = res], c,
                             [resource |-> scanResource(ns, res)])
    /\ UNCHANGED <<db, files, mu, clock, staged>>

\* The version summaries of ReadResource and UpdateResource.
ResourceVersions(p) ==
    /\ pc[p] \in {"rres_versions", "ures_versions"}
    /\ \E c \in Ctx(p) :
        IF listQuery(c) # "nil" THEN Return(p, call[p].op, "internal_error", c)
        ELSE Proceed(p, IF pc[p] = "rres_versions" THEN "rres_channels"
                        ELSE "ures_channels",
                     call[p], c,
                     [resource |-> result[p].resource,
                      versions |-> listVersions(call[p].ns, call[p].res)])
    /\ UNCHANGED <<db, files, mu, clock, staged>>

\* The channel summaries of ReadResource and UpdateResource.
ResourceChannels(p) ==
    /\ pc[p] \in {"rres_channels", "ures_channels"}
    /\ \E c \in Ctx(p) :
        IF listQuery(c) # "nil" THEN Return(p, call[p].op, "internal_error", c)
        ELSE Respond(p, call[p].op, "ok", c,
                     [resource |-> result[p].resource,
                      versions |-> result[p].versions,
                      channels |-> listChannels(call[p].ns, call[p].res)])
    /\ UNCHANGED <<db, files, mu, clock, staged>>

UpdateResource(p, ns, res, t, d, c) ==
    /\ pc[p] = "idle"
    /\ IF ~validateIdentifier(ns, res)
       THEN Return(p, "UpdateResource", "bad_request", FALSE) /\ UNCHANGED resources
       ELSE LET r == updateResourceStmt(c, ns, res, t, d)
            IN  /\ resources' = r.tbl
                /\ IF r.err = "norows" THEN Return(p, "UpdateResource", "not_found", c)
                   ELSE IF r.err # "nil"
                        THEN Return(p, "UpdateResource", "internal_error", c)
                   ELSE Goto(p, "ures_get",
                             [NoArgs EXCEPT !.op = "UpdateResource", !.ns = ns,
                                            !.res = res, !.desc = d], c)
    /\ UNCHANGED <<namespaces, versions, channels, files, mu, clock, staged>>

\* The query at the end of updateResource.
UpdateResourceGet(p) ==
    /\ pc[p] = "ures_get"
    /\ \E c \in Ctx(p) :
        LET e == getResource(c, call[p].ns, call[p].res)
        IN  IF e = "norows" THEN Return(p, "UpdateResource", "not_found", c)
            ELSE IF e # "nil" THEN Return(p, "UpdateResource", "internal_error", c)
            ELSE Proceed(p, "ures_versions", call[p], c,
                         [resource |-> scanResource(call[p].ns, call[p].res)])
    /\ UNCHANGED <<db, files, mu, clock, staged>>

ListResources(p, ns, c) ==
    /\ pc[p] = "idle"
    /\ IF ~validateNamespace(ns)
       THEN Return(p, "ListResources", "bad_request", FALSE)
       ELSE IF listQuery(c) # "nil"
            THEN Return(p, "ListResources", "internal_error", c)
       ELSE Respond(p, "ListResources", "ok", c, [resources |-> listResources(ns)])
    /\ UNCHANGED <<db, files, mu, clock, staged>>

ListVersions(p, ns, res, c) ==
    /\ pc[p] = "idle"
    /\ IF ~validateIdentifier(ns, res)
       THEN Return(p, "ListVersions", "bad_request", FALSE)
       ELSE IF listQuery(c) # "nil"
            THEN Return(p, "ListVersions", "internal_error", c)
       ELSE Respond(p, "ListVersions", "ok", c, [versions |-> listVersions(ns, res)])
    /\ UNCHANGED <<db, files, mu, clock, staged>>

ListChannels(p, ns, res, c) ==
    /\ pc[p] = "idle"
    /\ IF ~validateIdentifier(ns, res)
       THEN Return(p, "ListChannels", "bad_request", FALSE)
       ELSE IF listQuery(c) # "nil"
            THEN Return(p, "ListChannels", "internal_error", c)
       ELSE Respond(p, "ListChannels", "ok", c, [channels |-> listChannels(ns, res)])
    /\ UNCHANGED <<db, files, mu, clock, staged>>

\* Variant: a version without an archive is reported as an internal error.
DownloadArchive_archiveRequired(p, ns, res, s, c) ==
    /\ pc[p] = "idle"
    /\ IF ~validateReference(ns, res, s)
       THEN Return(p, "DownloadArchive", "bad_request", FALSE)
       ELSE LET e == getVersion(c, ns, res, s)
            IN  IF e = "norows" THEN Return(p, "DownloadArchive", "not_found", c)
                ELSE IF e # "nil" \/ scanVersion(ns, res, s).archive = NULL
                     THEN Return(p, "DownloadArchive", "internal_error", c)
                ELSE Proceed(p, "dl_open",
                             [NoArgs EXCEPT !.op = "DownloadArchive", !.ns = ns,
                                            !.res = res, !.ver = s], c,
                             scanVersion(ns, res, s))
    /\ UNCHANGED <<db, files, mu, clock, staged>>

\* DownloadArchive takes no lock.  It reads the version row and remembers the
\* archive path it scanned.
DownloadArchive(p, ns, res, s, c) ==
    /\ pc[p] = "idle"
    /\ IF ~validateReference(ns, res, s)
       THEN Return(p, "DownloadArchive", "bad_request", FALSE)
       ELSE LET e == getVersion(c, ns, res, s)
            IN  IF e = "norows" THEN Return(p, "DownloadArchive", "not_found", c)
                ELSE IF e # "nil"
                     THEN Return(p, "DownloadArchive", "internal_error", c)
                ELSE IF scanVersion(ns, res, s).archive = NULL
                     THEN Return(p, "DownloadArchive", "not_found", c)
                ELSE Proceed(p, "dl_open",
                             [NoArgs EXCEPT !.op = "DownloadArchive", !.ns = ns,
                                            !.res = res, !.ver = s], c,
                             scanVersion(ns, res, s))
    /\ UNCHANGED <<db, files, mu, clock, staged>>

\* os.Open of the path scanned; the reader returned yields the bytes of the
\* file that was opened.
DownloadOpen(p) ==
    /\ pc[p] = "dl_open"
    /\ LET path == result[p].archive[1]
       IN  IF path \notin DOMAIN files
           THEN Return(p, "DownloadArchive", "internal_error", cancelled[p])
           ELSE Respond(p, "DownloadArchive", "ok", cancelled[p],
                        [bytes |-> files[path]])
    /\ UNCHANGED <<db, files, mu, clock, staged>>


-----------------------------------------------------------------------------
(* SpecFacade: one client calls every operation of the facade, one call     *)
(* after the other, with valid and invalid names, on a registry that starts *)
(* empty.                                                                   *)

Client == "p1"

\* The arguments of the calls: all valid, or one of them invalid.
NamespaceArgs == {NsA, BadName}
ResourceArgs == {<<NsA, ResA>>, <<BadName, ResA>>, <<NsA, BadName>>}
VersionArgs ==
    {<<NsA, ResA, Ver1>>, <<BadName, ResA, Ver1>>, <<NsA, BadName, Ver1>>,
     <<NsA, ResA, BadVer>>}
ChannelArgs ==
    {<<NsA, ResA, Stable>>, <<BadName, ResA, Stable>>, <<NsA, BadName, Stable>>,
     <<NsA, ResA, BadName>>}
\* namespace, resource, info.Name, info.Version
ChannelInfoArgs ==
    {<<NsA, ResA, Stable, Ver1>>, <<BadName, ResA, Stable, Ver1>>,
     <<NsA, BadName, Stable, Ver1>>, <<NsA, ResA, BadName, Ver1>>,
     <<NsA, ResA, Stable, BadVer>>}
\* namespace, resource, channel, info.Name, info.Version
UpdateChannelArgs ==
    {<<NsA, ResA, Stable, Stable, Ver1>>, <<BadName, ResA, Stable, Stable, Ver1>>,
     <<NsA, BadName, Stable, Stable, Ver1>>, <<NsA, ResA, BadName, Stable, Ver1>>,
     <<NsA, ResA, Stable, BadName, Ver1>>, <<NsA, ResA, BadName, BadName, Ver1>>,
     <<NsA, ResA, Stable, Stable, BadVer>>}

NextFacade ==
    \/ \E ns \in NamespaceArgs, d \in Descriptions, c \in BOOLEAN :
           \/ CreateNamespace(Client, ns, d, c)
           \/ UpdateNamespace(Client, ns, d, c)
    \/ \E ns \in NamespaceArgs, c \in BOOLEAN :
           \/ ReadNamespace(Client, ns, c)
           \/ DeleteNamespace(Client, ns, c)
           \/ ListResources(Client, ns, c)
    \/ \E c \in BOOLEAN : ListNamespaces(Client, c)
    \/ CreateNamespaceProbe(Client)
    \/ UpdateNamespaceGet(Client)
    \/ NamespaceList(Client)
    \/ \E a \in ResourceArgs, c \in BOOLEAN :
           \/ CreateResource(Client, a[1], a[2], "widget", "d1", c)
           \/ UpdateResource(Client, a[1], a[2], "widget", "d2", c)
           \/ ReadResource(Client, a[1], a[2], c)
           \/ DeleteResource(Client, a[1], a[2], c)
           \/ ListVersions(Client, a[1], a[2], c)
           \/ ListChannels(Client, a[1], a[2], c)
    \/ CreateResourceProbe(Client)
    \/ CreateResourceParent(Client)
    \/ UpdateResourceGet(Client)
    \/ ResourceVersions(Client)
    \/ ResourceChannels(Client)
    \/ \E a \in VersionArgs, c \in BOOLEAN :
           \/ CreateVersion(Client, a[1], a[2], a[3], c)
           \/ UpdateVersion(Client, a[1], a[2], a[3], c)
           \/ ReadVersion(Client, a[1], a[2], a[3], c)
           \/ DeleteVersion(Client, a[1], a[2], a[3], c)
           \/ DownloadArchive(Client, a[1], a[2], a[3], c)
    \/ \E a \in VersionArgs : UploadArchive(Client, a[1], a[2], a[3])
    \/ CreateVersionProbe(Client)
    \/ CreateVersionParent(Client)
    \/ UpdateVersionGet(Client)
    \/ UploadLock(Client)
    \/ \E data \in Contents : UploadStage(Client, data, "none")
    \/ UploadCommit(Client, "none")
    \/ UploadUpdate(Client)
    \/ UploadGet(Client)
    \/ DownloadOpen(Client)
    \/ \E a \in ChannelInfoArgs, c \in BOOLEAN :
           CreateChannel(Client, a[1], a[2], a[3], a[4], "d1", c)
    \/ \E a \in UpdateChannelArgs, c \in BOOLEAN :
           UpdateChannel(Client, a[1], a[2], a[3], a[4], a[5], "d2", c)
    \/ \E a \in ChannelArgs, c \in BOOLEAN :
           \/ ReadChannel(Client, a[1], a[2], a[3], c)
           \/ DeleteChannel(Client, a[1], a[2], a[3], c)
    \/ CreateChannelProbe(Client)
    \/ CreateChannelParent(Client)
    \/ CreateChannelGet(Client)
    \/ UpdateChannelGet(Client)

SpecFacade == Init /\ [][NextFacade]_vars


-----------------------------------------------------------------------------
(* Properties of SpecFacade *)

\* Some name of the tuple ns (namespace, resource, channel names) or the
\* version string s of a call is invalid; <<>> stands for an argument the
\* operation does not take.
SomeInvalid(ns, s) ==
    \/ \E i \in DOMAIN ns : ~validateName(ns[i])
    \/ s # <<>> /\ ~validateVersionString(s)

\* A facade call by p at least one of whose namespace, resource or channel
\* names or version strings is invalid.  UpdateChannel takes the channel name
\* twice: as its channel argument ch and as info.Name.
CallWithInvalidName(p) ==
    /\ pc[p] = "idle"
    /\ LET op == call'[p].op
       IN  \E c \in BOOLEAN :
           CASE op \in {"CreateNamespace", "UpdateNamespace"} ->
                  \E ns \in NamespaceArgs, d \in Descriptions :
                     /\ SomeInvalid(<<ns>>, <<>>)
                     /\ \/ CreateNamespace(p, ns, d, c)
                        \/ UpdateNamespace(p, ns, d, c)
             [] op \in {"ReadNamespace", "DeleteNamespace", "ListResources"} ->
                  \E ns \in NamespaceArgs :
                     /\ SomeInvalid(<<ns>>, <<>>)
                     /\ \/ ReadNamespace(p, ns, c)
                        \/ DeleteNamespace(p, ns, c)
                        \/ ListResources(p, ns, c)
             [] op \in {"CreateResource", "ReadResource", "UpdateResource",
                        "DeleteResource", "ListVersions", "ListChannels"} ->
                  \E a \in ResourceArgs :
                     /\ SomeInvalid(a, <<>>)
                     /\ \/ CreateResource(p, a[1], a[2], "widget", "d1", c)
                        \/ UpdateResource(p, a[1], a[2], "widget", "d2", c)
                        \/ ReadResource(p, a[1], a[2], c)
                        \/ DeleteResource(p, a[1], a[2], c)
                        \/ ListVersions(p, a[1], a[2], c)
                        \/ ListChannels(p, a[1], a[2], c)
             [] op \in {"CreateVersion", "ReadVersion", "UpdateVersion",
                        "DeleteVersion", "UploadArchive", "DownloadArchive"} ->
                  \E a \in VersionArgs :
                     /\ SomeInvalid(<<a[1], a[2]>>, a[3])
                     /\ \/ CreateVersion(p, a[1], a[2], a[3], c)
                        \/ UpdateVersion(p, a[1], a[2], a[3], c)
                        \/ ReadVersion(p, a[1], a[2], a[3], c)
                        \/ DeleteVersion(p, a[1], a[2], a[3], c)
                        \/ UploadArchive(p, a[1], a[2], a[3])
                        \/ DownloadArchive(p, a[1], a[2], a[3], c)
             [] op \in {"ReadChannel", "DeleteChannel"} ->
                  \E a \in ChannelArgs :
                     /\ SomeInvalid(a, <<>>)
                     /\ \/ ReadChannel(p, a[1], a[2], a[3], c)
                        \/ DeleteChannel(p, a[1], a[2], a[3], c)
             [] op = "CreateChannel" ->
                  \E a \in ChannelInfoArgs :
                     /\ SomeInvalid(<<a[1], a[2], a[3]>>, a[4])
                     /\ CreateChannel(p, a[1], a[2], a[3], a[4], "d1", c)
             [] op = "UpdateChannel" ->
                  \E a \in UpdateChannelArgs :
                     /\ SomeInvalid(<<a[1], a[2], a[3], a[4]>>, a[5])
                     /\ UpdateChannel(p, a[1], a[2], a[3], a[4], a[5], "d2", c)
             [] OTHER -> FALSE

\* The call of p returned bad_request at once, having changed no row and no
\* blob and not having taken the upload lock.
RejectedAtOnce(p) ==
    /\ pc'[p] = "idle"
    /\ ret'[p] = "bad_request"
    /\ db' = db
    /\ files' = files
    /\ mu' = mu

\* C17: a facade call with an invalid namespace, resource or channel name or
\* an invalid version string returns bad_request at once, having changed no
\* row and no blob and not having taken the upload lock.
C17_InvalidNameBadRequest ==
    [][RejectedAtOnce(Client) \/ ~CallWithInvalidName(Client)]_vars


\* A read, metadata update or download by p with valid names and a live
\* context whose target row does not exist.
CallOnMissingTarget(p) ==
    /\ pc[p] = "idle"
    /\ LET op == call'[p].op
       IN  CASE op \in {"ReadNamespace", "UpdateNamespace"} ->
                  /\ NsA \notin DOMAIN namespaces
                  /\ \/ ReadNamespace(p, NsA, FALSE)
                     \/ \E d \in Descriptions : UpdateNamespace(p, NsA, d, FALSE)
             [] op \in {"ReadResource", "UpdateResource"} ->
                  /\ <<NsA, ResA>> \notin DOMAIN resources
                  /\ \/ ReadResource(p, NsA, ResA, FALSE)
                     \/ UpdateResource(p, NsA, ResA, "widget", "d2", FALSE)
             [] op \in {"ReadVersion", "UpdateVersion", "DownloadArchive"} ->
                  /\ <<NsA, ResA, Ver1>> \notin DOMAIN versions
                  /\ \/ ReadVersion(p, NsA, ResA, Ver1, FALSE)
                     \/ UpdateVersion(p, NsA, ResA, Ver1, FALSE)
                     \/ DownloadArchive(p, NsA, ResA, Ver1, FALSE)
             [] op = "ReadChannel" ->
                  /\ <<NsA, ResA, Stable>> \notin DOMAIN channels
                  /\ ReadChannel(p, NsA, ResA, Stable, FALSE)
             [] OTHER -> FALSE

\* The call of p returned not_found at once, having changed no row and no
\* blob.
NotFoundAtOnce(p) ==
    /\ pc'[p] = "idle"
    /\ ret'[p] = "not_found"
    /\ db' = db
    /\ files' = files

\* C18: ReadNamespace, ReadResource, ReadVersion, ReadChannel,
\* UpdateNamespace, UpdateResource, UpdateVersion and DownloadArchive called
\* with valid names and a live context on a target that does not exist
\* return not_found and change no row and no blob.
C18_MissingTargetNotFound ==
    [][NotFoundAtOnce(Client) \/ ~CallOnMissingTarget(Client)]_vars

\* The client was answered not_found by DownloadArchive for a version that
\* does not exist in a resource that does, while a blob of an earlier upload
\* to that version is still on disk.
C18_Witness ==
    /\ call[Client].op = "DownloadArchive"
    /\ ret[Client] = "not_found"
    /\ ~cancelled[Client]
    /\ <<NsA, ResA>> \in DOMAIN resources
    /\ <<NsA, ResA, Ver1>> \notin DOMAIN versions
    /\ DOMAIN files # {}


-----------------------------------------------------------------------------
(* Further properties of SpecArchive *)

\* The Version a successful upload of data to <<ns, res, ver>> describes.
UploadedVersion(ns, res, ver, data) ==
    [digest |-> <<DigestOf(data)>>,
     size |-> <<Len(data)>>,
     archive |-> <<archiveFinalPath(ns, res, ver, DigestOf(data))>>]

\* C19: a successful UploadArchive returns a Version whose digest is
\* "sha256:" and the hex SHA-256 of the streamed bytes, whose size is their
\* number and whose archive path is the canonical path for that digest; at
\* the return the version row holds those three values and the blob at that
\* path holds exactly the streamed bytes.
C19_UploadReturnsWhatItStored ==
    [][\A p \in Procs :
          (/\ pc[p] = "up_get"
           /\ pc'[p] = "idle"
           /\ ret'[p] = "ok")
          => LET k == <<call[p].ns, call[p].res, call[p].ver>>
                 u == UploadedVersion(k[1], k[2], k[3], call[p].data)
             IN  /\ result'[p].digest = u.digest
                 /\ result'[p].size = u.size
                 /\ result'[p].archive = u.archive
                 /\ k \in DOMAIN versions'
                 /\ versions'[k].digest = u.digest
                 /\ versions'[k].size = u.size
                 /\ versions'[k].path = u.archive
                 /\ u.archive[1] \in DOMAIN files'
                 /\ files'[u.archive[1]] = call[p].data]_vars


-----------------------------------------------------------------------------
(* SpecRoundTrip: a client uploads archives to version 1.0.0 and downloads  *)
(* the archive right after an upload that succeeded, while another caller   *)
(* creates version 2.0.0, uploads to it and touches the metadata of 1.0.0:  *)
(* there is no other upload to, and no deletion of, 1.0.0 between an upload  *)
(* and the download that follows it.  The registry is constructed over a    *)
(* database that already holds the namespace and the resource.              *)

Other == "p2"

NextRoundTrip ==
    \/ \E c \in BOOLEAN : CreateVersion(Client, NsA, ResA, Ver1, c)
    \/ CreateVersionProbe(Client)
    \/ CreateVersionParent(Client)
    \/ \E c \in BOOLEAN : DeleteVersion(Client, NsA, ResA, Ver1, c)
    \/ UploadArchive(Client, NsA, ResA, Ver1)
    \/ UploadLock(Client)
    \/ Cancel(Client)
    \/ \E data \in Contents : UploadStage(Client, data, "none")
    \/ UploadCommit(Client, "none")
    \/ UploadUpdate(Client)
    \/ UploadGet(Client)
    \/ /\ call[Client].op = "UploadArchive"
       /\ ret[Client] = "ok"
       /\ \E c \in BOOLEAN : DownloadArchive(Client, NsA, ResA, Ver1, c)
    \/ DownloadOpen(Client)
    \/ \E c \in BOOLEAN : CreateVersion(Other, NsA, ResA, Ver2, c)
    \/ CreateVersionProbe(Other)
    \/ CreateVersionParent(Other)
    \/ \E c \in BOOLEAN : UpdateVersion(Other, NsA, ResA, Ver1, c)
    \/ UpdateVersionGet(Other)
    \/ UploadArchive(Other, NsA, ResA, Ver2)
    \/ UploadLock(Other)
    \/ Cancel(Other)
    \/ \E data \in Contents : UploadStage(Other, data, "none")
    \/ UploadCommit(Other, "none")
    \/ UploadUpdate(Other)
    \/ UploadGet(Other)

SpecRoundTrip == InitChannels /\ [][NextRoundTrip]_vars

\* C20: a DownloadArchive that follows a successful UploadArchive of the same
\* version, with no other upload to or deletion of that version in between,
\* succeeds and yields exactly the uploaded bytes, also when the upload
\* replaced an earlier archive.  In three steps of the client: the upload
\* returns the digest of the bytes it streamed; the download that follows
\* finds the row with that digest; the file it opens exists and its bytes
\* have that digest (SHA-256 being injective here, they are the bytes).
C20_DownloadYieldsUploadedBytes ==
    [][/\ (/\ pc[Client] = "up_get"
           /\ ret'[Client] = "ok")
          => result'[Client].digest = <<DigestOf(call[Client].data)>>
       /\ (/\ call[Client].op = "UploadArchive"
           /\ ret[Client] = "ok"
           /\ call'[Client].op = "DownloadArchive"
           /\ ~cancelled'[Client])
          => /\ pc'[Client] = "dl_open"
             /\ result'[Client].digest = result[Client].digest
       /\ (/\ pc[Client] = "dl_open"
           /\ pc'[Client] = "idle")
          => /\ ret'[Client] = "ok"
             /\ <<DigestOf(result'[Client].bytes)>> = result[Client].digest
             /\ <<Len(result'[Client].bytes)>> = result[Client].size]_vars

\* The client downloaded the bytes of its second upload, which replaced an
\* archive of other content whose blob is still on disk.
C20_Witness ==
    /\ call[Client].op = "DownloadArchive"
    /\ ret[Client] = "ok"
    /\ result[Client] = [bytes |-> <<8, 9>>]
    /\ archiveFinalPath(NsA, ResA, Ver1, DigestOf(<<7>>)) \in DOMAIN files


-----------------------------------------------------------------------------
(* Further properties of SpecFacade *)

\* C21: DownloadArchive with valid names and a live context on a version
\* that exists and has no archive returns not_found and changes nothing; a
\* version has no archive from its creation on, whatever blobs are on disk
\* (CreateVersion stores a NULL path), until the metadata update of an
\* UploadArchive sets it.
C21_NoArchiveNotFound ==
    [][LET k == <<NsA, ResA, Ver1>>
       IN  /\ (/\ pc[Client] = "idle"
               /\ call'[Client].op = "DownloadArchive"
               /\ k \in DOMAIN versions
               /\ versions[k].path = NULL
               /\ DownloadArchive(Client, NsA, ResA, Ver1, FALSE))
              => NotFoundAtOnce(Client)
           /\ (k \notin DOMAIN versions /\ k \in DOMAIN versions')
              => versions'[k].path = NULL
           /\ (/\ k \in DOMAIN versions /\ k \in DOMAIN versions'
               /\ versions[k].path = NULL /\ versions'[k].path # NULL)
              => pc[Client] = "up_update"]_vars

\* The client was answered not_found by DownloadArchive for a version that
\* exists without an archive while the blob of an upload to an earlier
\* incarnation of that version is still on disk.
C21_Witness ==
    /\ call[Client].op = "DownloadArchive"
    /\ ret[Client] = "not_found"
    /\ ~cancelled[Client]
    /\ <<NsA, ResA, Ver1>> \in DOMAIN versions
    /\ versions[<<NsA, ResA, Ver1>>].path = NULL
    /\ \E d \in Contents : archiveFinalPath(NsA, ResA, Ver1, DigestOf(d)) \in DOMAIN files


-----------------------------------------------------------------------------
(* SpecClock: a client creates a namespace, a resource, a version and a     *)
(* channel on an empty registry and mutates them (Update*, UploadArchive)   *)
(* while the clock, read in whole seconds by every statement helper,        *)
(* advances.                                                                *)

NextClock ==
    \/ Tick
    \/ \E d \in Descriptions, c \in BOOLEAN :
           \/ CreateNamespace(Client, NsA, d, c)
           \/ UpdateNamespace(Client, NsA, d, c)
    \/ CreateNamespaceProbe(Client)
    \/ UpdateNamespaceGet(Client)
    \/ NamespaceList(Client)
    \/ \E c \in BOOLEAN :
           \/ CreateResource(Client, NsA, ResA, "widget", "d1", c)
           \/ UpdateResource(Client, NsA, ResA, "widget", "d2", c)
           \/ CreateVersion(Client, NsA, ResA, Ver1, c)
           \/ UpdateVersion(Client, NsA, ResA, Ver1, c)
           \/ CreateChannel(Client, NsA, ResA, Stable, Ver1, "d1", c)
           \/ UpdateChannel(Client, NsA, ResA, Stable, Stable, Ver1, "d2", c)
    \/ CreateResourceProbe(Client)
    \/ CreateResourceParent(Client)
    \/ UpdateResourceGet(Client)
    \/ ResourceVersions(Client)
    \/ ResourceChannels(Client)
    \/ CreateVersionProbe(Client)
    \/ CreateVersionParent(Client)
    \/ UpdateVersionGet(Client)
    \/ UploadArchive(Client, NsA, ResA, Ver1)
    \/ UploadLock(Client)
    \/ UploadStage(Client, <<7>>, "none")
    \/ UploadCommit(Client, "none")
    \/ UploadUpdate(Client)
    \/ UploadGet(Client)
    \/ CreateChannelProbe(Client)
    \/ CreateChannelParent(Client)
    \/ CreateChannelGet(Client)
    \/ UpdateChannelGet(Client)

SpecClock == Init /\ [][NextClock]_vars

\* Every row was created no later than it was last updated.
CreatedBeforeUpdated ==
    /\ \A k \in DOMAIN namespaces : namespaces[k].created_at <= namespaces[k].updated_at
    /\ \A k \in DOMAIN resources : resources[k].created_at <= resources[k].updated_at
    /\ \A k \in DOMAIN versions : versions[k].created_at <= versions[k].updated_at
    /\ \A k \in DOMAIN channels : channels[k].created_at <= channels[k].updated_at

\* The step of the client in which the UPDATE statement of an Update* call
\* or of UploadArchive took effect, and the time of modification of the row
\* it addressed before and after.
MutationAdvances(p) ==
    LET a == call'[p]
    IN  /\ (pc[p] = "idle" /\ pc'[p] = "uns_get")
           => namespaces'[a.ns].updated_at > namespaces[a.ns].updated_at
        /\ (pc[p] = "idle" /\ pc'[p] = "ures_get")
           => resources'[<<a.ns, a.res>>].updated_at
                 > resources[<<a.ns, a.res>>].updated_at
        /\ (pc[p] = "idle" /\ pc'[p] = "uver_get")
           => versions'[<<a.ns, a.res, a.ver>>].updated_at
                 > versions[<<a.ns, a.res, a.ver>>].updated_at
        /\ (pc[p] = "idle" /\ pc'[p] = "uch_get")
           => channels'[<<a.ns, a.res, a.name>>].updated_at
                 > channels[<<a.ns, a.res, a.name>>].updated_at
        /\ (pc[p] = "up_update" /\ pc'[p] = "up_get")
           => versions'[<<a.ns, a.res, a.ver>>].updated_at
                 > versions[<<a.ns, a.res, a.ver>>].updated_at

\* C22: in every reachable state every row has created_at <= updated_at, and
\* every successful mutation of a row (Update*, UploadArchive) leaves its
\* updated_at strictly greater than it was, also within one clock second.
C22_UpdatedAtStrictlyAdvances ==
    /\ []CreatedBeforeUpdated
    /\ [][MutationAdvances(Client)]_vars


-----------------------------------------------------------------------------
(* Further properties of SpecTeardown *)

-----------------------------------------------------------------------------
(* SpecReaders: a client reads, lists and downloads while another caller    *)
(* uploads archives to version 1.0.0.  The registry is constructed over a   *)
(* database that holds the namespace, the resource, version 1.0.0 with an   *)
(* archive and channel stable targeting it.                                 *)

InitReaders ==
    /\ InitTeardown
    /\ DOMAIN versions = {<<NsA, ResA, Ver1>>}
    /\ versions[<<NsA, ResA, Ver1>>].path # NULL
    /\ DOMAIN channels = {<<NsA, ResA, Stable>>}

\* The first statement of a read, list or download of the client.
ReaderCall(c) ==
    \/ ReadNamespace(Client, NsA, c)
    \/ ReadResource(Client, NsA, ResA, c)
    \/ ReadVersion(Client, NsA, ResA, Ver1, c)
    \/ ReadChannel(Client, NsA, ResA, Stable, c)
    \/ ListNamespaces(Client, c)
    \/ ListResources(Client, NsA, c)
    \/ ListVersions(Client, NsA, ResA, c)
    \/ ListChannels(Client, NsA, ResA, c)
    \/ DownloadArchive(Client, NsA, ResA, Ver1, c)

\* The later statements of a read or download of the client.
ReaderStep ==
    \/ NamespaceList(Client)
    \/ ResourceVersions(Client)
    \/ ResourceChannels(Client)
    \/ DownloadOpen(Client)

NextReaders ==
    \/ \E c \in BOOLEAN : ReaderCall(c)
    \/ ReaderStep
    \/ UploadArchive(Other, NsA, ResA, Ver1)
    \/ UploadLock(Other)
    \/ Cancel(Other)
    \/ \E data \in Contents : UploadStage(Other, data, "none")
    \/ UploadCommit(Other, "none")
    \/ UploadUpdate(Other)
    \/ UploadGet(Other)

SpecReaders == InitReaders /\ [][NextReaders]_vars

\* C24: DownloadArchive and the Read* and List* operations never take or wait
\* for the upload lock: whoever holds the lock, each of them can be started
\* by an idle client with a live context, a started one can take its next
\* step, and no step of the client changes the lock.
C24_ReadersNeverLock ==
    /\ [](/\ pc[Client] = "idle"
             => /\ ENABLED ReadNamespace(Client, NsA, FALSE)
                /\ ENABLED ReadResource(Client, NsA, ResA, FALSE)
                /\ ENABLED ReadVersion(Client, NsA, ResA, Ver1, FALSE)
                /\ ENABLED ReadChannel(Client, NsA, ResA, Stable, FALSE)
                /\ ENABLED ListNamespaces(Client, FALSE)
                /\ ENABLED ListResources(Client, NsA, FALSE)
                /\ ENABLED ListVersions(Client, NsA, ResA, FALSE)
                /\ ENABLED ListChannels(Client, NsA, ResA, FALSE)
                /\ ENABLED DownloadArchive(Client, NsA, ResA, Ver1, FALSE)
          /\ pc[Client] # "idle" => ENABLED ReaderStep)
    /\ [][(pc'[Client] # pc[Client] \/ ret'[Client] # ret[Client]
             \/ result'[Client] # result[Client])
          => mu' = mu]_vars

\* While the other caller's upload holds the lock and is ingesting, the
\* client's DownloadArchive has returned the stored bytes.
C24_Witness ==
    /\ mu = Other
    /\ pc[Other] = "up_commit"
    /\ call[Client].op = "DownloadArchive"
    /\ ret[Client] = "ok"
    /\ result[Client] = [bytes |-> <<7>>]


-----------------------------------------------------------------------------
(* C25 *)

\* Caller p's Create* call returns in this step.
CreateReturns(p) ==
    /\ pc'[p] = "idle"
    /\ call'[p].op \in {"CreateNamespace", "CreateResource", "CreateVersion",
                        "CreateChannel"}
    /\ \/ pc[p] \in {"cns_probe", "cres_probe", "cres_parent", "cver_probe",
                     "cver_parent", "cch_probe", "cch_parent", "cch_get"}
       \/ /\ pc[p] = "idle"
          /\ CASE call'[p].op = "CreateNamespace" ->
                    \E name \in {NsA, BadName}, d \in Descriptions, c \in BOOLEAN :
                        CreateNamespace(p, name, d, c)
               [] call'[p].op = "CreateResource" ->
                    \E name \in {ResA, BadName}, c \in BOOLEAN :
                        CreateResource(p, NsA, name, "widget", "d1", c)
               [] call'[p].op = "CreateVersion" ->
                    \E s \in {Ver1, BadVer}, c \in BOOLEAN :
                        CreateVersion(p, NsA, ResA, s, c)
               [] OTHER -> FALSE

\* The step adds a row to the table of the operation.
RowInserted(op) ==
    CASE op = "CreateNamespace" -> DOMAIN namespaces' # DOMAIN namespaces
      [] op = "CreateResource" -> DOMAIN resources' # DOMAIN resources
      [] op = "CreateVersion" -> DOMAIN versions' # DOMAIN versions
      [] OTHER -> FALSE

\* C25: a Create* call returns success only if its own insert took effect: a
\* successful CreateNamespace, CreateResource or CreateVersion returns in the
\* step that inserts its row, a CreateChannel reaches its final read only in
\* the step that inserts its row and returns success only from that read, and
\* no probe that follows a failed insert returns success, whatever the other
\* callers did in between.
C25_CreateSucceedsOnlyByOwnInsert ==
    [][\A p \in Procs :
          /\ (CreateReturns(p) /\ ret'[p] = "ok")
                => \/ pc[p] = "idle" /\ RowInserted(call'[p].op)
                   \/ pc[p] = "cch_get"
          /\ (pc[p] # "cch_get" /\ pc'[p] = "cch_get")
                => /\ pc[p] = "idle"
                   /\ <<call'[p].ns, call'[p].res, call'[p].name>>
                          \in DOMAIN channels' \ DOMAIN channels]_vars

\* One caller's CreateResource succeeded while the other caller's insert of
\* the same resource has failed under a live context and its probe, which
\* will find the row, is still to run.
C25_Witness ==
    \E p, q \in Procs :
        /\ call[p].op = "CreateResource" /\ ret[p] = "ok" /\ pc[p] = "idle"
        /\ pc[q] = "cres_probe" /\ ~cancelled[q]
        /\ <<NsA, ResA>> \in DOMAIN resources


-----------------------------------------------------------------------------
(* Package archive (tar+zstd codec).                                         *)
(*                                                                           *)
(* An entry name is a sequence of one-character strings; "xFF" stands for a  *)
(* byte that is not valid UTF-8.  A filesystem path is the sequence of its   *)
(* elements below the root directory, which always exists.  A tar stream is  *)
(* the sequence of its entries; zstd is lossless and is not modelled.        *)

Dest == << <<"d">> >>       \* the destination directory of Extract
Src == << <<"s">> >>        \* the source directory of Create
TarPath == << <<"t">> >>    \* the archive file
Outside == << <<"e">> >>    \* a file next to the destination

DirNode == [kind |-> "dir", data |-> <<>>]
FileNode(data) == [kind |-> "file", data |-> data]

\* The names of the entries of an arbitrary tar stream:
\* a, b, a/b, ../e, /e, a/../../e, ., the empty name, a/, .. and \xFF.
EntryNames ==
    { <<"a">>, <<"b">>, <<"a", "/", "b">>, <<".", ".", "/", "e">>, <<"/", "e">>,
      <<"a", "/", ".", ".", "/", ".", ".", "/", "e">>, <<".">>, <<>>,
      <<"a", "/">>, <<".", ".">>, <<"xFF">> }

\* What tr.Next() can return: a header of a directory, of a regular file
\* whose content can be read to its end or breaks off (short), of a symbolic
\* link, a corrupt header, or io.EOF.
Entries ==
    [name : EntryNames, type : {"dir", "symlink"}, data : {<<>>}, short : {FALSE}]
        \cup [name : EntryNames, type : {"reg"}, data : {<<7>>}, short : BOOLEAN]
        \cup [name : {<<>>}, type : {"corrupt"}, data : {<<>>}, short : {FALSE}]

EOF == [name |-> <<>>, type |-> "eof", data |-> <<>>, short |-> FALSE]

\* A reader that is not a file written by Create: it can yield any entries.
AnyStream == <<EOF>>

MaxEntries == 3

RECURSIVE Split(_, _)
\* The elements of a name between the separators sep, as io/fs.ValidPath and
\* filepath.Clean scan them for "/" (strings.Split).
Split(name, sep) ==
    IF \A i \in 1..Len(name) : name[i] # sep THEN <<name>>
    ELSE LET i == CHOOSE j \in 1..Len(name) :
                      name[j] = sep /\ \A k \in 1..(j - 1) : name[k] # sep
         IN  <<SubSeq(name, 1, i - 1)>> \o Split(SubSeq(name, i + 1, Len(name)), sep)

RECURSIVE Clean(_, _, _)
\* filepath.Clean on the elements `rest`, appended to the cleaned elements
\* `acc`: empty and "." elements are dropped, ".." removes the element before
\* it; at the root ".." is dropped, in a relative path a leading ".." stays.
Clean(acc, rest, rooted) ==
    IF rest = <<>> THEN acc
    ELSE LET e == Head(rest)
         IN  IF e = <<>> \/ e = <<".">> THEN Clean(acc, Tail(rest), rooted)
             ELSE IF e = <<".", ".">>
             THEN IF acc # <<>> /\ acc[Len(acc)] # <<".", ".">>
                  THEN Clean(SubSeq(acc, 1, Len(acc) - 1), Tail(rest), rooted)
                  ELSE IF rooted THEN Clean(acc, Tail(rest), rooted)
                  ELSE Clean(Append(acc, e), Tail(rest), rooted)
             ELSE Clean(Append(acc, e), Tail(rest), rooted)

\* io/fs.ValidPath, which filepath.Localize requires of its argument: valid
\* UTF-8, and either "." or elements none of which is empty, "." or "..".
ValidPath(name) ==
    /\ \A i \in 1..Len(name) : name[i] # "xFF"
    /\ \/ name = <<".">>
       \/ \A i \in 1..Len(Split(name, "/")) :
              Split(name, "/")[i] \notin {<<>>, <<".">>, <<".", ".">>}

\* filepath.IsLocal: not empty, not absolute, and not leaving the directory
\* it is joined to.
IsLocal(name) ==
    /\ name # <<>>
    /\ name[1] # "/"
    /\ LET c == Clean(<<>>, Split(name, "/"), FALSE)
       IN  c = <<>> \/ c[1] # <<".", ".">>

\* Variant: every name that is not absolute counts as local.
validateAndJoinPath_relative(dest, name) ==
    IF name = <<>> \/ name[1] = "/" THEN [err |-> "invalid_path", path |-> <<>>]
    ELSE [err |-> "nil", path |-> Clean(<<>>, dest \o Split(name, "/"), TRUE)]

\* The target of an entry: filepath.Join(dest, localName), which cleans the
\* joined path, or ErrInvalidPath.
validateAndJoinPath(dest, name) ==
    IF ~ValidPath(name) THEN [err |-> "invalid_path", path |-> <<>>]
    ELSE IF ~IsLocal(name) THEN [err |-> "invalid_path", path |-> <<>>]
    ELSE [err |-> "nil", path |-> Clean(<<>>, dest \o Split(name, "/"), TRUE)]

\* Path p is q or lies below q.
Within(p, q) == Len(p) >= Len(q) /\ SubSeq(p, 1, Len(q)) = q

\* os.MkdirAll: creates p and its missing parents, top down; fails at a
\* parent that is not a directory.
MkdirAll(t, p) ==
    LET up == {SubSeq(p, 1, i) : i \in 1..Len(p)}
    IN  IF \E q \in up : q \in DOMAIN t /\ t[q].kind # "dir"
        THEN [err |-> "io", tree |-> t]
        ELSE [err |-> "nil",
              tree |-> [q \in DOMAIN t \cup up |->
                           IF q \in DOMAIN t THEN t[q] ELSE DirNode]]

\* os.RemoveAll
RemoveAll(t, p) == [q \in {x \in DOMAIN t : ~Within(x, p)} |-> t[q]]

\* extractEntry with extractDirectory and extractFile: a directory is made
\* with its parents; a regular file is created or truncated below its parent
\* directory and the entry's content copied into it, as far as it can be read.
extractEntry(t, header, target) ==
    IF header.type = "dir" THEN MkdirAll(t, target)
    ELSE IF header.type = "reg"
    THEN LET m == MkdirAll(t, SubSeq(target, 1, Len(target) - 1))
         IN  IF m.err # "nil" THEN m
             ELSE IF target = <<>> \/ (target \in DOMAIN m.tree /\ m.tree[target].kind = "dir")
             THEN [err |-> "io", tree |-> m.tree]
             ELSE IF header.short
                  THEN [err |-> "io", tree |-> Put(m.tree, target, FileNode(<<>>))]
                  ELSE [err |-> "nil", tree |-> Put(m.tree, target, FileNode(header.data))]
    ELSE [err |-> "unsupported_file_type", tree |-> t]


\* File name x sorts before file name y (os.ReadDir sorts by name, byte by
\* byte).
NameBefore(x, y) ==
    LET ByteOrder == <<".", "/", "a", "b", "xFF">>
        rank(c) == CHOOSE i \in 1..Len(ByteOrder) : ByteOrder[i] = c
    IN  \E i \in 1..(Len(y)) :
            /\ \A k \in 1..(i - 1) : k <= Len(x) /\ x[k] = y[k]
            /\ \/ i = Len(x) + 1
               \/ i <= Len(x) /\ rank(x[i]) < rank(y[i])

\* The entries of directory p, sorted by name.
ReadDir(t, p) ==
    LET kids == {q \in DOMAIN t : Len(q) = Len(p) + 1 /\ Within(q, p)}
    IN  IF \/ p # <<>> /\ p \notin DOMAIN t
           \/ p # <<>> /\ t[p].kind # "dir"
           \/ kids = {}
        THEN <<>>
        ELSE CHOOSE sq \in [1..Cardinality(kids) -> kids] :
                \A i, j \in DOMAIN sq :
                    i < j => NameBefore(sq[i][Len(sq[i])], sq[j][Len(sq[j])])

RECURSIVE WalkDir(_, _)
\* filepath.WalkDir: the paths in `todo` and everything below them, each
\* directory before its entries, in lexical order.
WalkDir(t, todo) ==
    IF todo = <<>> THEN <<>>
    ELSE <<Head(todo)>> \o WalkDir(t, ReadDir(t, Head(todo)) \o Tail(todo))

RECURSIVE ToSlash(_)
\* filepath.ToSlash of a relative path: its elements joined by slashes.
ToSlash(rel) ==
    IF Len(rel) = 1 THEN rel[1]
    ELSE rel[1] \o <<"/">> \o ToSlash(Tail(rel))

\* writeTar with writeEntry: the headers and contents written for the tree
\* below src, or ErrUnsupportedFileType at the first entry that is neither a
\* regular file nor a directory.
writeTar(t, src) ==
    LET visit == WalkDir(t, ReadDir(t, src))
    IN  IF \E i \in DOMAIN visit : t[visit[i]].kind \notin {"dir", "file"}
        THEN [err |-> "unsupported_file_type", entries |-> <<>>]
        ELSE [err |-> "nil",
              entries |-> [i \in DOMAIN visit |->
                  [name |-> ToSlash(SubSeq(visit[i], Len(src) + 1, Len(visit[i]))),
                   type |-> IF t[visit[i]].kind = "dir" THEN "dir" ELSE "reg",
                   data |-> t[visit[i]].data,
                   short |-> FALSE]]]

\* Create(src, dest): the archive file is created, the tree below src is
\* written into it, and on failure the partially written archive is removed.
Create(src, dest) ==
    /\ codec.pc = "idle"
    /\ LET w == IF src \in DOMAIN tree THEN writeTar(tree, src)
                ELSE [err |-> "io", entries |-> <<>>]
       IN  /\ tree' = IF w.err = "nil" THEN Put(tree, dest, FileNode(w.entries))
                      ELSE RemoveAll(tree, dest)
           /\ codec' = [codec EXCEPT !.pc = "created", !.err = w.err]
    /\ UNCHANGED <<registry, reader, ident, logger>>

\* Variant: the destination is not looked at before it is created.
ExtractFromReader_withoutStat(r, dest) ==
    /\ codec.pc \in {"idle", "created"}
    /\ LET m == MkdirAll(tree, dest)
       IN  IF m.err # "nil"
           THEN /\ codec' = [codec EXCEPT !.pc = "done", !.err = m.err]
                /\ UNCHANGED <<tree, reader>>
           ELSE /\ tree' = m.tree
                /\ reader' = r
                /\ codec' = [codec EXCEPT !.pc = "reading", !.err = "pending"]
    /\ UNCHANGED <<registry, ident, logger>>

\* ExtractFromReader(r, dest) up to the first tr.Next(): an existing
\* destination is refused; otherwise extractToDirectory creates it.
ExtractFromReader(r, dest) ==
    /\ codec.pc \in {"idle", "created"}
    /\ IF dest = <<>> \/ dest \in DOMAIN tree
       THEN /\ codec' = [codec EXCEPT !.pc = "done", !.err = "exists"]
            /\ UNCHANGED <<tree, reader>>
       ELSE LET m == MkdirAll(tree, dest)
            IN  IF m.err # "nil"
                THEN /\ codec' = [codec EXCEPT !.pc = "done", !.err = m.err]
                     /\ UNCHANGED <<tree, reader>>
                ELSE /\ tree' = m.tree
                     /\ reader' = r
                     /\ codec' = [codec EXCEPT !.pc = "reading", !.err = "pending"]
    /\ UNCHANGED <<registry, ident, logger>>

\* Extract(src, dest): opens the archive file and extracts from it.
Extract(src, dest) ==
    IF src \in DOMAIN tree /\ tree[src].kind = "file"
    THEN ExtractFromReader(tree[src].data, dest)
    ELSE /\ codec.pc \in {"idle", "created"}
         /\ codec' = [codec EXCEPT !.pc = "done", !.err = "io"]
         /\ UNCHANGED <<registry, tree, reader, ident, logger>>

\* Variant: a failed extraction leaves what it has extracted.
Cleanup_keepsPartial(t, dest, header, err) ==
    /\ tree' = t
    /\ codec' = [codec EXCEPT !.pc = "done", !.err = err, !.header = header]
    /\ UNCHANGED reader

\* The deferred cleanup of extractToDirectory on an error.
Cleanup(t, dest, header, err) ==
    /\ tree' = RemoveAll(t, dest)
    /\ codec' = [codec EXCEPT !.pc = "done", !.err = err, !.header = header]
    /\ UNCHANGED reader

\* One iteration of the loop of readTar, with the return of
\* extractToDirectory when the loop ends.
readTar(dest) ==
    /\ codec.pc = "reading"
    /\ \E header \in IF reader = AnyStream
                     THEN IF codec.n < MaxEntries THEN Entries \cup {EOF} ELSE {EOF}
                     ELSE IF reader = <<>> THEN {EOF} ELSE {Head(reader)} :
        IF header.type = "eof"
        THEN /\ codec' = [codec EXCEPT !.pc = "done", !.err = "nil", !.header = header]
             /\ UNCHANGED <<tree, reader>>
        ELSE IF header.type = "corrupt"
        THEN Cleanup(tree, dest, header, "io")
        ELSE LET target == validateAndJoinPath(dest, header.name)
             IN  IF target.err # "nil"
                 THEN Cleanup(tree, dest, header, target.err)
                 ELSE LET x == extractEntry(tree, header, target.path)
                      IN  IF x.err # "nil"
                          THEN Cleanup(x.tree, dest, header, x.err)
                          ELSE /\ tree' = x.tree
                               /\ reader' = IF reader = AnyStream THEN reader
                                            ELSE Tail(reader)
                               /\ codec' = [codec EXCEPT !.n = @ + 1, !.header = header]
    /\ UNCHANGED <<registry, ident, logger>>

\* The source trees of Create: below Src, a (file, symbolic link or directory
\* with b, empty or not), b (file, empty file or directory) and a file whose
\* name is the byte \xFF.
SourceTrees ==
    LET sa == Src \o << <<"a">> >>
        sab == Src \o << <<"a">>, <<"b">> >>
        sb == Src \o << <<"b">> >>
        sx == Src \o << <<"xFF">> >>
        Opt(p, nodes) == {<<>>} \cup {Put(<<>>, p, nd) : nd \in nodes}
        Merge(f, g) == [p \in DOMAIN f \cup DOMAIN g |->
                           IF p \in DOMAIN f THEN f[p] ELSE g[p]]
        all == { Merge(Put(<<>>, Src, DirNode), Merge(a, Merge(ab, Merge(b, x)))) :
                   a \in Opt(sa, {DirNode, FileNode(<<7>>),
                                  [kind |-> "symlink", data |-> <<>>]}),
                   ab \in Opt(sab, {DirNode, FileNode(<<8, 9>>)}),
                   b \in Opt(sb, {DirNode, FileNode(<<7>>), FileNode(<<>>)}),
                   x \in Opt(sx, {FileNode(<<7>>)}) }
    IN  {t \in all : sab \in DOMAIN t => sa \in DOMAIN t /\ t[sa].kind = "dir"}

\* The filesystem before the calls: a file next to the destination; a source
\* tree or none; the destination missing, a directory with a file in it, or
\* a file.
InitCodec ==
    /\ RegistryIdle
    /\ ReferenceIdle
    /\ LoggerIdle
    /\ reader = <<>>
    /\ codec = [pc |-> "idle", err |-> "none", n |-> 0, header |-> NoHeader]
    /\ \E s \in SourceTrees \cup {<<>>},
          d \in {<<>>, Put(<<>>, Dest, FileNode(<<7>>)),
                 Put(Put(<<>>, Dest, DirNode), Dest \o << <<"a">> >>, FileNode(<<8, 9>>))} :
        tree = [p \in DOMAIN s \cup DOMAIN d \cup {Outside} |->
                   IF p \in DOMAIN s THEN s[p]
                   ELSE IF p \in DOMAIN d THEN d[p] ELSE FileNode(<<7>>)]

NextCodec ==
    \/ Create(Src, TarPath)
    \/ Extract(TarPath, Dest)
    \/ ExtractFromReader(AnyStream, Dest)
    \/ readTar(Dest)

SpecCodec == InitCodec /\ [][NextCodec]_vars


-----------------------------------------------------------------------------
(* C26 *)

\* A name that is empty or absolute, or that, followed element by element
\* from the destination, steps above it at some point.
NonLocalName(name) ==
    \/ name = <<>>
    \/ name[1] = "/"
    \/ LET el == Split(name, "/")
       IN  \E k \in 1..Len(el) :
               Cardinality({i \in 1..k : el[i] = <<".", ".">>})
                   > Cardinality({i \in 1..k : el[i] \notin {<<>>, <<".">>, <<".", ".">>}})

\* C26: whatever entries the tar stream holds, a step of Extract creates,
\* changes and removes only paths inside the destination directory, and an
\* entry with a non-local name ends the extraction with invalid_path with
\* nothing of the destination left on disk.
C26_ExtractStaysInsideDest ==
    [][codec'.pc # "created"
          => /\ \A p \in DOMAIN tree \cup DOMAIN tree' :
                    (p \notin DOMAIN tree \/ p \notin DOMAIN tree' \/ tree'[p] # tree[p])
                        => Within(p, Dest)
             /\ (/\ codec.pc = "reading"
                 /\ codec'.header.type \in {"dir", "reg", "symlink"}
                 /\ NonLocalName(codec'.header.name))
                    => /\ codec'.pc = "done"
                       /\ codec'.err = "invalid_path"
                       /\ \A p \in DOMAIN tree' : ~Within(p, Dest)]_vars

\* After two entries were extracted, the regular file ../e was rejected; the
\* file e next to the destination is as it was.
C26_Witness ==
    /\ codec.pc = "done"
    /\ codec.err = "invalid_path"
    /\ codec.n = 2
    /\ codec.header.name = <<".", ".", "/", "e">>
    /\ codec.header.type = "reg"
    /\ codec.header.short
    /\ tree[Outside] = FileNode(<<7>>)


-----------------------------------------------------------------------------
(* C27, C28 *)

\* C27: when an extraction has failed at an entry (invalid path, unsupported
\* entry type, read or write error), however many entries it had extracted
\* before, neither the destination directory nor anything below it exists.
C27_FailedExtractLeavesNothing ==
    (/\ codec.pc = "done"
     /\ codec.header.type \in {"dir", "reg", "symlink", "corrupt"}
     /\ codec.err # "nil")
        => \A p \in DOMAIN tree : ~Within(p, Dest)

\* After two entries were extracted, a symbolic link was refused and the
\* destination is gone.
C27_Witness ==
    /\ codec.pc = "done"
    /\ codec.err = "unsupported_file_type"
    /\ codec.header.type = "symlink"
    /\ codec.n = 2
    /\ Dest \notin DOMAIN tree

-----------------------------------------------------------------------------
(* C29 *)

\* The tree below directory p: relative path -> node.
Below(p) ==
    [rel \in {SubSeq(q, Len(p) + 1, Len(q)) :
                 q \in {x \in DOMAIN tree : Within(x, p) /\ x # p}} |-> tree[p \o rel]]

\* The source holds regular files and directories only.
PlainSource ==
    /\ Src \in DOMAIN tree
    /\ \A q \in DOMAIN tree : Within(q, Src) => tree[q].kind \in {"dir", "file"}

\* C29: Create of a source tree of regular files and directories succeeds,
\* and Extract of the archive it wrote into a destination that did not exist
\* succeeds and leaves below the destination the relative paths, entry kinds
\* and file contents of the source.
C29_CreateExtractRoundTrip ==
    /\ (codec.pc = "created" /\ PlainSource) => codec.err = "nil"
    /\ (/\ codec.pc = "done"
        /\ PlainSource
        /\ TarPath \in DOMAIN tree
        /\ reader # AnyStream
        /\ codec.err # "exists")
           => /\ codec.err = "nil"
              /\ Below(Dest) = Below(Src)


-----------------------------------------------------------------------------
(* Package reference: identifiers.  Strings are sequences of one-character   *)
(* strings, " " being the whitespace that strings.Fields splits at.          *)

UpperAlpha == {"A", "B", "C", "D", "E", "F", "G", "H", "I", "J", "K", "L", "M",
               "N", "O", "P", "Q", "R", "S", "T", "U", "V", "W", "X", "Y", "Z"}

\* strings.Cut
Cut(s, sep) ==
    LET hits == {i \in 1..(Len(s) - Len(sep) + 1) : SubSeq(s, i, i + Len(sep) - 1) = sep}
    IN  IF hits = {} THEN [before |-> s, after |-> <<>>, found |-> FALSE]
        ELSE LET i == CHOOSE h \in hits : \A g \in hits : h <= g
             IN  [before |-> SubSeq(s, 1, i - 1),
                  after |-> SubSeq(s, i + Len(sep), Len(s)),
                  found |-> TRUE]

RECURSIVE Fields(_)
\* strings.Fields
Fields(s) ==
    IF s = <<>> THEN <<>>
    ELSE IF s[1] = " " THEN Fields(Tail(s))
    ELSE <<Cut(s, <<" ">>).before>> \o Fields(Cut(s, <<" ">>).after)

\* typePattern: ^[a-z]+$
typePattern(s) == Len(s) >= 1 /\ \A i \in 1..Len(s) : s[i] \in LowerAlpha

\* schemePattern: ^[a-z][a-z0-9+.-]*$
schemePattern(s) ==
    /\ Len(s) >= 1
    /\ s[1] \in LowerAlpha
    /\ \A i \in 2..Len(s) : s[i] \in LowerAlpha \cup Digits \cup {"+", ".", "-"}

\* registryPattern: two or more dot-separated labels, each alphanumeric with
\* inner hyphens, then an optional dot and an optional colon and port.
registryPattern(s) ==
    LET c == Cut(s, <<":">>)
        host == IF c.before # <<>> /\ c.before[Len(c.before)] = "."
                THEN SubSeq(c.before, 1, Len(c.before) - 1) ELSE c.before
        labels == Split(host, ".")
        alnum == LowerAlpha \cup UpperAlpha \cup Digits
    IN  /\ c.found => /\ c.after # <<>>
                      /\ \A i \in 1..Len(c.after) : c.after[i] \in Digits
        /\ Len(labels) >= 2
        /\ \A k \in 1..Len(labels) :
              /\ Len(labels[k]) >= 1
              /\ labels[k][1] \in alnum
              /\ labels[k][Len(labels[k])] \in alnum
              /\ \A i \in 1..Len(labels[k]) : labels[k][i] \in alnum \cup {"-"}

\* namePattern of package reference: ^[a-z]([a-z0-9-]{0,126}[a-z0-9])?$
referenceNamePattern(s) ==
    /\ Len(s) >= 1
    /\ Len(s) <= 128
    /\ s[1] \in LowerAlpha
    /\ s[Len(s)] \in LowerAlpha \cup Digits
    /\ \A i \in 1..Len(s) : s[i] \in LowerAlpha \cup Digits \cup {"-"}

\* pathPattern: ^[a-z0-9/_.-]+$
pathPattern(s) ==
    /\ Len(s) >= 1
    /\ \A i \in 1..Len(s) : s[i] \in LowerAlpha \cup Digits \cup {"/", "_", ".", "-"}

looksLikeRegistry(s) == Cut(s, <<".">>).found \/ Cut(s, <<":">>).found

\* IdentifierOptions.scheme / registry / namespace: the option, or the
\* package default when the option is empty.
DefaultOf(options) ==
    [scheme |-> IF options.DefaultScheme # <<>> THEN options.DefaultScheme
                ELSE <<"h", "t", "t", "p", "s">>,
     registry |-> IF options.DefaultRegistry # <<>> THEN options.DefaultRegistry
                  ELSE <<"r", "e", "g", "i", "s", "t", "r", "y", ".", "c", "r", "u",
                         "c", "i", "b", "l", "e", ".", "n", "e", "t">>,
     namespace |-> IF options.DefaultNamespace # <<>> THEN options.DefaultNamespace
                   ELSE <<"o", "f", "f", "i", "c", "i", "a", "l">>]

\* An identifier that failed to parse.
Invalid(err) == [NoIdentifier EXCEPT !.err = err]

\* identifierParser.parseType: the position of the location token, which
\* follows a type token if the first of several tokens is lowercase
\* alphabetic and the second looks like a location.
parseType(tokens, contextType) ==
    IF \/ ~typePattern(tokens[1])
       \/ Len(tokens) = 1
       \/ (~Cut(tokens[2], <<"/">>).found /\ ~looksLikeRegistry(tokens[2]))
    THEN [err |-> "nil", pos |-> 1]
    ELSE IF tokens[1] # contextType THEN [err |-> "type_mismatch", pos |-> 1]
    ELSE [err |-> "nil", pos |-> 2]

\* identifierParser.parseLocation with parseURI, parseRegistryPath and
\* parseDefaultPath.
parseLocation(tok, typ, options) ==
    LET uri == Cut(tok, <<":", "/", "/">>)
        rest == Cut(uri.after, <<"/">>)
        seg == Cut(tok, <<"/">>)
        d == DefaultOf(options)
        id == [NoIdentifier EXCEPT !.err = "nil", !.typ = typ,
                                   !.scheme = d.scheme, !.registry = d.registry]
    IN  IF uri.found
        THEN IF ~schemePattern(uri.before) THEN Invalid("invalid_scheme")
             ELSE IF ~rest.found \/ rest.before = <<>> THEN Invalid("missing_registry")
             ELSE IF rest.after = <<>> THEN Invalid("missing_path")
             ELSE IF ~registryPattern(rest.before) THEN Invalid("invalid_registry")
             ELSE IF ~pathPattern(rest.after) THEN Invalid("invalid_path")
             ELSE [id EXCEPT !.scheme = uri.before, !.registry = rest.before,
                             !.path = rest.after]
        ELSE IF seg.found /\ looksLikeRegistry(seg.before)
        THEN IF ~registryPattern(seg.before) THEN Invalid("invalid_registry")
             ELSE IF seg.after = <<>> THEN Invalid("empty_path")
             ELSE IF ~pathPattern(seg.after) THEN Invalid("invalid_path")
             ELSE [id EXCEPT !.registry = seg.before, !.path = seg.after]
        ELSE IF seg.found
        THEN IF ~referenceNamePattern(seg.before) THEN Invalid("invalid_namespace")
             ELSE IF ~referenceNamePattern(seg.after) THEN Invalid("invalid_name")
             ELSE [id EXCEPT !.namespace = seg.before, !.name = seg.after]
        ELSE IF ~referenceNamePattern(tok) THEN Invalid("invalid_name")
             ELSE [id EXCEPT !.namespace = d.namespace, !.name = tok]

\* identifierParser.parse
parse(tokens, contextType, options) ==
    IF ~typePattern(contextType) THEN Invalid("invalid_context_type")
    ELSE IF tokens = <<>> THEN Invalid("empty_identifier")
    ELSE LET t == parseType(tokens, contextType)
         IN  IF t.err # "nil" THEN Invalid(t.err)
             ELSE LET id == parseLocation(tokens[t.pos], contextType, options)
                  IN  IF id.err # "nil" THEN id
                      ELSE IF t.pos < Len(tokens) THEN Invalid("unexpected_token")
                      ELSE id

\* Identifier.Path
Path(id) ==
    IF id.path # <<>> THEN id.path
    ELSE IF id.namespace = <<>> THEN id.name
    ELSE id.namespace \o <<"/">> \o id.name

\* Identifier.String with Identifier.URI: "<type> <scheme>://<registry>/<path>"
String(id) ==
    id.typ \o <<" ">> \o id.scheme \o <<":", "/", "/">> \o id.registry \o <<"/">> \o Path(id)

\* ParseIdentifier(s, contextType, options) on the current text.
ParseIdentifier ==
    /\ ident.pc \in {"input", "printed"}
    /\ LET id == parse(Fields(ident.text), ident.contextType, ident.options)
       IN  ident' = [ident EXCEPT !.id = id,
                                  !.first = IF ident.pc = "input" THEN id ELSE @,
                                  !.pc = IF ident.pc = "input" THEN "parsed" ELSE "reparsed"]
    /\ UNCHANGED <<registry, archive, logger>>

\* id.String() of the identifier parsed: the text to parse next.
PrintIdentifier ==
    /\ ident.pc = "parsed"
    /\ ident.id.err = "nil"
    /\ ident' = [ident EXCEPT !.text = String(ident.id), !.pc = "printed"]
    /\ UNCHANGED <<registry, archive, logger>>

\* The strings parsed: every location form, with and without the type, with
\* extra whitespace, and malformed ones; context types w and v; no options,
\* all options set, and a default registry that is not a registry name.
InitReference ==
    /\ RegistryIdle
    /\ ArchiveIdle
    /\ LoggerIdle
    /\ \E loc \in { <<"h", ":", "/", "/", "r", ".", "i", "o", "/", "a", "/", "b">>,
                    <<"h", ":", "/", "/", "r", ".", "i", "o", ":", "1", "/", "/", "a">>,
                    <<"r", ".", "i", "o", "/", "a", "_", "b">>,
                    <<"R", ".", "i", "o", ".", "/", "a">>,
                    <<"a", "/", "b">>,
                    <<"b", "-", "1">>,
                    <<"w">>,
                    <<"h", ":", "/", "/", "r", ".", "i", "o">>,
                    <<"h", ":", "/", "/", "r", "/", "a">>,
                    <<"r", ".", "i", "o", "/">>,
                    <<"a", "/", "B">>,
                    <<"1", "a">>,
                    <<"a", "/", "b", " ", "c">>,
                    <<>> },
          prefix \in { <<>>, <<"w", " ">>, <<" ", "w", " ", " ">>, <<"v", " ">> },
          ctx \in { <<"w">>, <<"v">>, <<"W">> },
          o \in { NoOptions,
                  [DefaultScheme |-> <<"h">>, DefaultRegistry |-> <<"r", ".", "i", "o">>,
                   DefaultNamespace |-> <<"n">>],
                  [NoOptions EXCEPT !.DefaultRegistry = <<"l", "o", "c", "a", "l">>] } :
        ident = [pc |-> "input", text |-> prefix \o loc, contextType |-> ctx,
                 options |-> o, id |-> NoIdentifier, first |-> NoIdentifier]

NextReference == ParseIdentifier \/ PrintIdentifier

SpecReference == InitReference /\ [][NextReference]_vars

-----------------------------------------------------------------------------
(* C30 *)

\* The accessors of two identifiers agree.
SameIdentifier(x, y) ==
    /\ x.typ = y.typ
    /\ x.scheme = y.scheme
    /\ x.registry = y.registry
    /\ x.namespace = y.namespace
    /\ x.name = y.name
    /\ Path(x) = Path(y)

\* C30: when the canonical String() of a successfully parsed identifier has
\* been parsed with the same context type, the parse has succeeded and the
\* identifier has the type, scheme, registry, namespace, name and path of the
\* original.
C30_StringParsesBack ==
    ident.pc = "reparsed"
        => /\ ident.id.err = "nil"
           /\ SameIdentifier(ident.id, ident.first)

-----------------------------------------------------------------------------
(* C31: the summaries of the list queries.  One caller creates a namespace,
   a resource, two versions and two channels, updates the namespace at a
   later second, and lists. *)

NextSummaries ==
    \/ Tick
    \/ \E d \in Descriptions, c \in BOOLEAN :
           \/ CreateNamespace(Client, NsA, d, c)
           \/ UpdateNamespace(Client, NsA, d, c)
    \/ CreateNamespaceProbe(Client)
    \/ UpdateNamespaceGet(Client)
    \/ \E c \in BOOLEAN :
           \/ ReadNamespace(Client, NsA, c)
           \/ ListNamespaces(Client, c)
           \/ ListResources(Client, NsA, c)
           \/ CreateResource(Client, NsA, ResA, "widget", "d1", c)
    \/ NamespaceList(Client)
    \/ CreateResourceProbe(Client)
    \/ CreateResourceParent(Client)
    \/ \E s \in {Ver1, Ver2}, c \in BOOLEAN : CreateVersion(Client, NsA, ResA, s, c)
    \/ CreateVersionProbe(Client)
    \/ CreateVersionParent(Client)
    \/ \E n \in {Stable, Beta}, c \in BOOLEAN :
           CreateChannel(Client, NsA, ResA, n, Ver1, "d1", c)
    \/ CreateChannelProbe(Client)
    \/ CreateChannelParent(Client)
    \/ CreateChannelGet(Client)

SpecSummaries == Init /\ [][NextSummaries]_vars

\* The resource summaries rs agree with the rows of namespace ns as they are
\* in the state the query ran in.
SummariesOfResources(rs, ns) ==
    LET digits == <<"-", ".", "0", "1", "2", "3", "4", "5", "6", "7", "8", "9">>
        order(ch) == CHOOSE i \in 1..Len(digits) : digits[i] = ch
        \* x <= y lexicographically
        NotAfter(x, y) ==
            \/ x = y
            \/ \E i \in 1..Len(y) :
                   /\ \A k \in 1..(i - 1) : k <= Len(x) /\ x[k] = y[k]
                   /\ \/ i = Len(x) + 1
                      \/ i <= Len(x) /\ order(x[i]) < order(y[i])
    IN  /\ {s.name : s \in rs} = {k[2] : k \in {x \in DOMAIN resources : x[1] = ns}}
        /\ \A s \in rs :
               LET vs == {k \in DOMAIN versions : k[1] = ns /\ k[2] = s.name}
                   cs == {k \in DOMAIN channels : k[1] = ns /\ k[2] = s.name}
               IN  /\ s.version_count = Cardinality(vs)
                   /\ s.channel_count = Cardinality(cs)
                   /\ IF vs = {} THEN s.latest_version = NULL
                      ELSE /\ \E k \in vs : k[3] = s.latest_version
                           /\ \A k \in vs : NotAfter(k[3], s.latest_version)

\* The namespace summaries agree with the rows.
SummariesOfNamespaces(nss) ==
    /\ {s.name : s \in nss} = DOMAIN namespaces
    /\ \A s \in nss :
           /\ s.resource_count = Cardinality({k \in DOMAIN resources : k[1] = s.name})
           /\ s.created_at = namespaces[s.name].created_at
           /\ s.updated_at = namespaces[s.name].updated_at

\* C31: whenever ListNamespaces, ListResources or ReadNamespace returns its
\* summaries, each namespace summary carries the number of the namespace's
\* resources and the row's created_at and updated_at, and each resource
\* summary carries the numbers of the resource's versions and channels and
\* the lexicographically greatest version string, absent without versions.
C31_SummariesAgreeWithRows ==
    [][ /\ pc'[Client] = "idle" /\ ret'[Client] = "ok"
        /\ \/ \E c \in BOOLEAN : ListNamespaces(Client, c)
           \/ \E c \in BOOLEAN : ListResources(Client, NsA, c)
           \/ pc[Client] = "rns_list" /\ NamespaceList(Client)
        => CASE call'[Client].op = "ListNamespaces" ->
                    SummariesOfNamespaces(result'[Client].namespaces)
             [] OTHER ->
                    SummariesOfResources(result'[Client].resources, NsA) ]_vars

\* ListResources has returned the summary of a resource with two versions
\* and two channels.
C31_SeveralOfBoth ==
    /\ call[Client].op = "ListResources" /\ ret[Client] = "ok"
    /\ \E s \in result[Client].resources : s.version_count = 2 /\ s.channel_count = 2

\* The same statement for the resource summaries only.
C31_ResourceSummariesAgree ==
    [][ /\ pc'[Client] = "idle" /\ ret'[Client] = "ok"
        /\ \/ \E c \in BOOLEAN : ListResources(Client, NsA, c)
           \/ pc[Client] = "rns_list" /\ NamespaceList(Client)
        => SummariesOfResources(result'[Client].resources, NsA) ]_vars

-----------------------------------------------------------------------------
(* C32: the errors of the facade on a database or filesystem failure.  A
   specification of two runs of one failing call site that differ in the raw
   error only. *)

\* Raw error texts of the driver, the context and the filesystem.
RawErrors == {"database is locked", "context canceled", "no space left on device"}

\* The call sites of logAndReturnError in the facade: operation, code,
\* message constant and the keys of the logged context.
ErrorSites ==
    LET ns == <<"namespace">>
        res == <<"namespace", "resource">>
        ver == <<"namespace", "resource", "version">>
        ch == <<"namespace", "resource", "channel">>
        internal(op, message, keys) ==
            [op |-> op, code |-> "internal_error", message |-> message, keys |-> keys]
        errMsgRetrieveResourceList == "unable to retrieve resource list for namespace"
        errMsgRetrieveVersionList == "unable to retrieve version list for resource"
        errMsgRetrieveChannelList == "unable to retrieve channel list for resource"
        errMsgRetrieveVersion == "unable to retrieve version information"
        errMsgRetrieveChannel == "unable to retrieve channel information"
    IN  { internal("CreateNamespace", "unable to create namespace due to internal error", ns),
          internal("ReadNamespace", "unable to retrieve namespace information", ns),
          internal("ReadNamespace", errMsgRetrieveResourceList, ns),
          internal("UpdateNamespace", "unable to save namespace changes", ns),
          internal("UpdateNamespace", errMsgRetrieveResourceList, ns),
          internal("DeleteNamespace", "unable to delete namespace - it may contain resources", ns),
          internal("ListNamespaces", "unable to retrieve namespace list", <<>>),
          internal("CreateResource", "unable to create resource due to internal error", res),
          internal("ReadResource", "unable to retrieve resource information", ns),
          internal("ReadResource", errMsgRetrieveVersionList, res),
          internal("ReadResource", errMsgRetrieveChannelList, res),
          internal("UpdateResource", "unable to save resource changes", res),
          internal("UpdateResource", errMsgRetrieveVersionList, res),
          internal("UpdateResource", errMsgRetrieveChannelList, res),
          internal("DeleteResource",
                   "unable to delete resource - it may contain versions or channels", res),
          internal("ListResources", errMsgRetrieveResourceList, ns),
          internal("CreateVersion", "unable to create version due to internal error", ver),
          internal("ReadVersion", errMsgRetrieveVersion, ver),
          internal("UpdateVersion", "unable to save version changes", ver),
          internal("DeleteVersion",
                   "unable to delete version - it may be referenced by channels", ver),
          internal("ListVersions", errMsgRetrieveVersionList, res),
          internal("UploadArchive", "unable to store archive metadata", ver),
          [op |-> "UploadArchive", code |-> "not_found",
           message |-> "version not found", keys |-> ver],
          internal("UploadArchive", "unable to update archive metadata", ver),
          internal("UploadArchive", errMsgRetrieveVersion, ver),
          internal("DownloadArchive", errMsgRetrieveVersion, ver),
          internal("DownloadArchive",
                   "unable to access archive file - file may be missing or inaccessible", ver),
          internal("CreateChannel",
                   "unable to create channel - ensure the target version exists", ch),
          internal("CreateChannel", errMsgRetrieveChannel, ch),
          internal("UpdateChannel",
                   "unable to update channel - ensure the target version exists", ch),
          internal("ReadChannel", errMsgRetrieveChannel, ch),
          internal("DeleteChannel", "unable to delete channel", ch),
          internal("ListChannels", errMsgRetrieveChannelList, res) }

\* A variant that puts the cause into the message.
logAndReturnError_wrapsCause(code, message, err, keyvals) ==
    [error |-> [Code |-> code, Message |-> <<message, err>>],
     entry |-> [msg |-> message, args |-> <<"error", err>> \o keyvals]]

\* logAndReturnError: the entry given to r.logger.Error and the Error returned.
logAndReturnError(code, message, err, keyvals) ==
    [error |-> [Code |-> code, Message |-> message],
     entry |-> [msg |-> message, args |-> <<"error", err>> \o keyvals]]

\* Two runs are about to fail at the same call site, each with its raw error.
InitErrors ==
    /\ RegistryIdle
    /\ ArchiveIdle
    /\ ReferenceIdle
    /\ \E site \in ErrorSites, e1 \in RawErrors, e2 \in RawErrors :
           logger = [site |-> site,
                     runs |-> <<[NoRun EXCEPT !.err = e1], [NoRun EXCEPT !.err = e2]>>]

\* Run i reaches the call site: the facade returns what logAndReturnError
\* returns, and the logger receives the entry.
FacadeFails(i) ==
    /\ logger.runs[i].error = <<>>
    /\ LET run == logger.runs[i]
           r == logAndReturnError(logger.site.code, logger.site.message, run.err,
                                  logger.site.keys)
       IN  logger' = [logger EXCEPT !.runs[i] =
                         [run EXCEPT !.error = r.error, !.log = Append(run.log, r.entry)]]
    /\ UNCHANGED <<registry, archive, ident>>

NextErrors == \E i \in {1, 2} : FacadeFails(i)

SpecErrors == InitErrors /\ [][NextErrors]_vars

-----------------------------------------------------------------------------
(* C33: one UploadArchive call of the client on a version without archive,
   with ingest faults, cancellation, the clock and a concurrent
   DeleteVersion of the other caller. *)

\* The registry holds version 1.0.0 without archive and no blob.
InitUpload ==
    /\ InitTeardown
    /\ DOMAIN versions = {<<NsA, ResA, Ver1>>}
    /\ versions[<<NsA, ResA, Ver1>>].path = NULL
    /\ channels = <<>>

NextUpload ==
    \/ Tick
    \/ ret[Client] = "none" /\ UploadArchive(Client, NsA, ResA, Ver1)
    \/ UploadLock(Client)
    \/ Cancel(Client)
    \/ \E data \in Contents, fault \in {"none", "mkdir", "create", "read"} :
           UploadStage(Client, data, fault)
    \/ \E fault \in {"none", "close", "rename"} : UploadCommit(Client, fault)
    \/ UploadUpdate(Client)
    \/ UploadGet(Client)
    \/ \E c \in BOOLEAN : DeleteVersion(Other, NsA, ResA, Ver1, c)

SpecUpload == InitUpload /\ [][NextUpload]_vars

\* The client's UploadArchive returns an error from one of the positions.
UploadFails(positions) ==
    /\ pc[Client] \in positions
    /\ pc'[Client] = "idle"
    /\ ret'[Client] # "ok"

\* After the step the version, if it exists, has the archive fields and the
\* updated_at it had before the call, and the blobs on disk are those from
\* before the call: none.
AsBeforeUpload ==
    /\ DOMAIN files' = {}
    /\ <<NsA, ResA, Ver1>> \in DOMAIN versions'
           => versions'[<<NsA, ResA, Ver1>>] = VersionRow(NsA, ResA, Ver1, NULL)

\* C33: whenever UploadArchive returns an error, the version's archive
\* fields and updated_at and the set of blob files are as they were before
\* the call.
C33_UploadAllOrNothing ==
    [][UploadFails({"up_stage", "up_commit", "up_update", "up_get"})
           => AsBeforeUpload]_vars

\* The same statement for the returns before the refetch: ingest failure,
\* not_found and failure of the metadata update.
C33_FailureBeforeRefetch ==
    [][UploadFails({"up_stage", "up_commit", "up_update"}) => AsBeforeUpload]_vars

-----------------------------------------------------------------------------
(* C34 *)

\* C34: whenever no UploadArchive call holds the upload lock, no file
\* .upload.tmp exists in any version directory; and an UploadArchive call that
\* returns from the first half of the ingest (directory, temporary file or
\* reader failed) leaves the files on disk as they were, so a reader error
\* creates no final blob.
C34_NoTemporaryFileLeft ==
    /\ [](mu = NoProc
            => \A f \in DOMAIN files : f[Len(f)] # TemporaryUploadSuffix)
    /\ [][\A p \in Procs :
             (pc[p] = "up_stage" /\ pc'[p] = "idle")
                 => /\ mu' = NoProc
                    /\ DOMAIN files' = DOMAIN files]_vars

\* An upload whose context was never cancelled has failed in the ingest: the
\* lock is free, the version has no archive and no file is on disk.
C34_Witness ==
    /\ mu = NoProc
    /\ files = <<>>
    /\ <<NsA, ResA, Ver1>> \in DOMAIN versions
    /\ \E p \in Procs : /\ call[p].op = "UploadArchive"
                        /\ ret[p] = "internal_error"
                        /\ ~cancelled[p]

-----------------------------------------------------------------------------
(* C35 *)

\* C35: for every version row with the archive fields set whose blob file
\* exists, the file's content hashes to the stored digest, its length is the
\* stored size, and the stored path is the canonical path of the row's own
\* namespace, resource, version and digest.
C35_BlobMatchesRow ==
    \A k \in DOMAIN versions :
        LET row == versions[k]
        IN  (row.digest # NULL /\ row.size # NULL /\ row.path # NULL
             /\ row.path[1] \in DOMAIN files)
                => /\ DigestOf(files[row.path[1]]) = row.digest[1]
                   /\ Len(files[row.path[1]]) = row.size[1]
                   /\ row.path[1] = archiveFinalPath(k[1], k[2], k[3], row.digest[1])

\* A version carries an archive whose blob exists while another upload to
\* the same version has staged a blob of different content.
C35_Witness ==
    \E k \in DOMAIN versions, q \in Procs :
        /\ versions[k].path # NULL
        /\ versions[k].path[1] \in DOMAIN files
        /\ pc[q] = "up_update"
        /\ <<call[q].ns, call[q].res, call[q].ver>> = k
        /\ staged[q].digest # versions[k].digest[1]

-----------------------------------------------------------------------------
(* C36 *)

\* Table t changes at most in the row of key k, which keeps its created_at
\* and the fields `kept`.
OnlyRow(t, tNext, k, kept) ==
    /\ DOMAIN tNext = DOMAIN t
    /\ \A x \in DOMAIN t : x # k => tNext[x] = t[x]
    /\ k \in DOMAIN t
           => /\ tNext[k].created_at = t[k].created_at
              /\ \A f \in kept : tNext[k][f] = t[k][f]

\* The step of caller p changes only the row its Update* call addresses,
\* keeps that row's created_at and, for a version, its digest, size and
\* path, and changes no other table and no blob.
UpdateFrame(p) ==
    LET a == call'[p]
    IN  /\ files' = files
        /\ CASE a.op = "UpdateNamespace" ->
                   /\ OnlyRow(namespaces, namespaces', a.ns, {})
                   /\ UNCHANGED <<resources, versions, channels>>
             [] a.op = "UpdateResource" ->
                   /\ OnlyRow(resources, resources', <<a.ns, a.res>>, {})
                   /\ UNCHANGED <<namespaces, versions, channels>>
             [] a.op = "UpdateVersion" ->
                   /\ OnlyRow(versions, versions', <<a.ns, a.res, a.ver>>,
                              {"digest", "size", "path"})
                   /\ UNCHANGED <<namespaces, resources, channels>>
             [] OTHER ->
                   /\ OnlyRow(channels, channels', <<a.ns, a.res, a.ch>>, {})
                   /\ UNCHANGED <<namespaces, resources, versions>>

\* Caller p performs the UPDATE of an Update* call and goes on to the refetch.
UpdateStatement(p) ==
    pc[p] = "idle" /\ pc'[p] \in {"uns_get", "ures_get", "uver_get", "uch_get"}

\* C36: the UPDATE of an Update* call that goes on to its refetch changes
\* only the mutable fields and updated_at of the row the call addresses: the
\* row keeps its key and created_at, a version keeps digest, size and path,
\* no other row of any table and no blob changes; the refetch and the list
\* queries of the call change nothing.
C36_UpdateChangesOnlyAddressedRow ==
    [][\A p \in Procs :
          /\ UpdateStatement(p) => UpdateFrame(p)
          /\ (pc[p] \in {"uns_get", "uns_list", "ures_get", "ures_versions",
                         "ures_channels", "uver_get", "uch_get"} /\ pc'[p] # pc[p])
                => UNCHANGED <<db, files>>]_vars

\* The same statement without the calls of UpdateChannel whose info.Name is
\* not the channel they address.
C36_NamedRowOnly ==
    [][\A p \in Procs :
          /\ (UpdateStatement(p) /\ call'[p].name = call'[p].ch) => UpdateFrame(p)
          /\ (pc[p] \in {"uns_get", "uns_list", "ures_get", "ures_versions",
                         "ures_channels", "uver_get", "uch_get"} /\ pc'[p] # pc[p])
                => UNCHANGED <<db, files>>]_vars

-----------------------------------------------------------------------------
(* C37: two callers keep uploading to a version that exists and to one that
   does not, with ingest faults and cancellation.  sync.Mutex hands the lock
   to a waiter that has waited long enough (starvation mode), io.Copy returns
   when the reader terminates, and every statement returns: a caller that
   waits for the lock gets it if it is free again and again, and a caller in
   the sequence takes its next step. *)

\* A step of caller p between the acquisition of the lock and the return.
UploadStep(p) ==
    \/ \E data \in Contents, fault \in {"none", "mkdir", "create", "read"} :
           UploadStage(p, data, fault)
    \/ \E fault \in {"none", "close", "rename"} : UploadCommit(p, fault)
    \/ UploadUpdate(p)
    \/ UploadGet(p)

NextLock ==
    \E p \in Procs :
        \/ \E v \in {Ver1, Ver2} : UploadArchive(p, NsA, ResA, v)
        \/ UploadLock(p)
        \/ Cancel(p)
        \/ UploadStep(p)

SpecLock ==
    /\ InitUpload
    /\ [][NextLock]_vars
    /\ \A p \in Procs : SF_vars(UploadLock(p)) /\ WF_vars(UploadStep(p))

\* C37: a caller holds the upload lock only inside UploadArchive, every
\* return of UploadArchive leaves the lock free, and every UploadArchive call
\* that waits for the lock eventually acquires it and then returns.
C37_LockReleasedAndAcquired ==
    /\ [](\A p \in Procs : mu = p => InUploadSequence(p))
    /\ [][\A p \in Procs : (InUploadSequence(p) /\ pc'[p] = "idle") => mu' = NoProc]_vars
    /\ \A p \in Procs : (pc[p] = "up_lock") ~> (mu = p)
    /\ \A p \in Procs : (mu = p) ~> (pc[p] = "idle" /\ mu # p)

\* A caller waits for the lock while the other holds it at the refetch.
C37_Witness ==
    \E p, q \in Procs :
        /\ pc[q] = "up_lock"
        /\ mu = p
        /\ pc[p] = "up_get"

-----------------------------------------------------------------------------
(* C38: the client issues Create* calls on a registry that holds the
   namespace, the resource and version 1.0.0, while the other caller deletes
   the channel.  Every channel row is inserted by the client. *)

NextCreate ==
    \/ \E d \in Descriptions, c \in BOOLEAN : CreateNamespace(Client, NsA, d, c)
    \/ CreateNamespaceProbe(Client)
    \/ \E c \in BOOLEAN : CreateResource(Client, NsA, ResA, "widget", "d1", c)
    \/ CreateResourceProbe(Client)
    \/ CreateResourceParent(Client)
    \/ \E s \in {Ver1, Ver2}, c \in BOOLEAN : CreateVersion(Client, NsA, ResA, s, c)
    \/ CreateVersionProbe(Client)
    \/ CreateVersionParent(Client)
    \/ \E tgt \in {Ver1, Ver2}, c \in BOOLEAN :
           CreateChannel(Client, NsA, ResA, Stable, tgt, "d1", c)
    \/ CreateChannelProbe(Client)
    \/ CreateChannelParent(Client)
    \/ CreateChannelGet(Client)
    \/ \E c \in BOOLEAN : DeleteChannel(Other, NsA, ResA, Stable, c)

SpecCreate == InitUpload /\ [][NextCreate]_vars

\* The client's Create* call returns an error from one of the positions.
CreateFails(positions) ==
    /\ pc[Client] \in positions
    /\ pc'[Client] = "idle"
    /\ ret'[Client] # "ok"

\* C38: a Create* call whose insert fails creates no row, the probes that
\* follow change nothing, and when CreateChannel returns an error from its
\* refetch after the insert, the registry does not hold the channel the call
\* inserted.
C38_FailedCreateLeavesNoRow ==
    [][/\ (pc[Client] = "idle"
             /\ pc'[Client] \in {"cns_probe", "cres_probe", "cver_probe", "cch_probe"})
           => db' = db
       /\ CreateFails({"cns_probe", "cres_probe", "cres_parent", "cver_probe",
                       "cver_parent", "cch_probe", "cch_parent"})
           => db' = db
       /\ CreateFails({"cch_get"})
           => <<call[Client].ns, call[Client].res, call[Client].name>>
                  \notin DOMAIN channels']_vars

\* The same statement for a refetch that fails under a live context, by a
\* concurrent DeleteChannel.
C38_DeletedBeforeRefetch ==
    [][(CreateFails({"cch_get"}) /\ ~cancelled'[Client])
           => <<call[Client].ns, call[Client].res, call[Client].name>>
                  \notin DOMAIN channels']_vars

\* The client's CreateChannel has failed at the refetch under a live context.
C38_DeletedReached ==
    /\ call[Client].op = "CreateChannel" /\ ret[Client] = "internal_error"
    /\ ~cancelled[Client]
    /\ call[Other].op = "DeleteChannel" /\ ret[Other] = "ok"
    /\ channels = <<>>

-----------------------------------------------------------------------------
(* C39: the names the registry validators accept, given to ParseIdentifier
   in the form namespace/name with the type taken from the context. *)

\* Names of one to three characters, with digits and hyphens in every
\* position, and names of 63 and 64 characters.
RegistryNames ==
    { <<"a">>, <<"1">>, <<"a", "b">>, <<"1", "a">>, <<"a", "1">>, <<"a", "-", "b">>,
      <<"9", "-", "9">>, <<"-", "a">>, <<"a", "-">>, <<"A">>, <<>>,
      [i \in 1..63 |-> "a"], [i \in 1..64 |-> "a"] }

\* A namespace and a name the registry accepts are about to be parsed.
InitNames ==
    /\ RegistryIdle
    /\ ArchiveIdle
    /\ LoggerIdle
    /\ \E namespace \in RegistryNames, name \in RegistryNames :
           /\ validateIdentifier(namespace, name)
           /\ ident = [pc |-> "input", text |-> namespace \o <<"/">> \o name,
                       contextType |-> <<"w">>, options |-> NoOptions,
                       id |-> NoIdentifier, first |-> NoIdentifier]

SpecNames == InitNames /\ [][NextReference]_vars

\* C39: when namespace/name has been parsed for a namespace and a name that
\* validateName accepts, the parse has succeeded with that namespace and
\* that name.
C39_RegistryNamesParse ==
    ident.pc = "parsed"
        => LET tok == Cut(ident.text, <<"/">>)
           IN  validateIdentifier(tok.before, tok.after)
                  => /\ ident.id.err = "nil"
                     /\ ident.id.namespace = tok.before
                     /\ ident.id.name = tok.after

\* The same statement for the accepted names that start with a letter.
C39_LetterFirstNamesParse ==
    ident.pc = "parsed"
        => LET tok == Cut(ident.text, <<"/">>)
           IN  (/\ validateIdentifier(tok.before, tok.after)
                /\ tok.before[1] \in LowerAlpha
                /\ tok.after[1] \in LowerAlpha)
                  => /\ ident.id.err = "nil"
                     /\ ident.id.namespace = tok.before
                     /\ ident.id.name = tok.after

====
